---- MODULE Spec2Model ----
(***************************************************************************)
(* The debugger-integration engine of deepin-unioncode: DebugManager       *)
(* (debugmanager.cpp, kept as src/unnamed/part_001) driving a debugger     *)
(* child process through QProcess.                                         *)
(*                                                                         *)
(* Text is a sequence of characters.  A character is a one-element string; *)
(* the read handler only tells CR and LF from everything else, so a word   *)
(* of debugger output ("done", "stopped") is kept as one character.        *)
(*                                                                         *)
(* The Debugger / GDBDebugger classes (debugger/gdbmi/gdbdebugger.h) are   *)
(* not among the sources: what the model needs of them (the record         *)
(* classifier behind handleOutputRecord, the observability log, the        *)
(* signal declared in debugmanager.h) follows the specification and is     *)
(* marked so in MODEL_MAP.json.                                            *)
(***************************************************************************)
EXTENDS Integers, Sequences, FiniteSets, TLC

\* ---------------------------------------------------------------- bounds
\* what one run explores: calls of command / commandAndResponse, process
\* starts by execute() and output lines of the debugger, together
MaxEvents == 4
\* a line that arrives in two pieces has a first piece of at most this many characters
MaxSplit == 1
\* SpecWrap starts a session this many tokens before the counter wraps
WrapLead == 1

\* ------------------------------------------------------ program constants
\* the modulus of the token counter, part_001:135
TokenModulus == 999999
\* the field width of the token in a command line, part_001:133
TokenWidth == 6

VARIABLES
    procState,        \* d->process->state(): "NotRunning" | "Starting" | "Running"
    exitCode,         \* d->process->exitCode() of the last exit
    debugger,         \* d->debugger: "null" | "gdb"
    crashed,          \* the program dereferenced the null d->debugger
    tokenCounter,     \* d->tokenCounter
    resposeExpected,  \* d->resposeExpected: token -> ResponseEntry
    tempBuffer,       \* d->tempBuffer
    written,          \* what the current process got on stdin: count and last line
    outRest,          \* the rest of the output line the process is emitting
    streamLog,        \* entries of the adapter's observability log
    breakpoints,      \* the adapter's breakpoint table: the ids in it
    terminated,       \* exit codes carried by the gdbProcessTerminated emissions
    invoked,          \* history: handler invocations, in order
    lastRecord,       \* history: the last record given to handleOutputRecord
    lastCmd,          \* history: the last call of command(), the records before it,
                      \* whether an entry was pending under its token
    nIssued,          \* history: calls of command() since the last started event
    session,          \* history: started events so far
    startCalls,       \* history: calls of d->process->start()
    nRegs,            \* history: entries registered so far (names each closure)
    nEvents,          \* run budget: calls of command(), starts, exits, output lines
    pc,               \* the caller inside stackListFrames(): "idle" | "called" | "waiting"
    fired,            \* d->locker: the flag fire() sets and wait() takes
    stackFrames,      \* the adapter's stack-frame snapshot, and the record it is from
    blocking,         \* history: the token of the last blocking call, the records before it
    lastReturn,       \* history: how the last blocking call came back
    threads,          \* callers and reader run as threads: each one's place in
                      \* its call and its locals, and the bytes on the process's stdin
    wire,             \* history: the bytes read from the process since the last
                      \* terminator before the last read, and the records that
                      \* read gave to handleOutputRecord
    launch,           \* d->process->arguments(); history: the arguments of the
                      \* last initDebugger that set them, and of the last start()
    widgetWaitForAdd, \* Controller: d->widgetWaitForAdd, name -> widget (0 is null)
    addedWidget,      \* Controller: d->addedWidget, name -> widget (0 is null)
    modeInfo,         \* Controller: d->modeInfo, mode -> the names registered to it
    mainWindow,       \* Controller: the docks of d->mainWindow, name -> shown or hidden
    widgetsGiven,     \* history: name -> the widgets registered under it, in order
    editorHash,       \* TextEditorManager: d->editorHash, file name -> editor
    editorsMade       \* history: the editors created, each with its file name
                      \* and whether it is alive

\* the Sync Bridge and the caller's place in a blocking call
sync == <<pc, fired, stackFrames, blocking, lastReturn>>

vars == <<procState, exitCode, debugger, crashed, tokenCounter, resposeExpected,
          tempBuffer, written, outRest, streamLog, breakpoints, terminated, invoked,
          lastRecord, lastCmd, nIssued, session, startCalls, nRegs, nEvents,
          pc, fired, stackFrames, blocking, lastReturn, threads, wire, launch,
          widgetWaitForAdd, addedWidget, modeInfo, mainWindow, widgetsGiven,
          editorHash, editorsMade>>

\* the window Controller and the TextEditorManager, which the debug engine
\* does not touch
plugins == <<widgetWaitForAdd, addedWidget, modeInfo, mainWindow, widgetsGiven,
             editorHash, editorsMade>>

\* the debug engine, which the Controller and the TextEditorManager do not
\* touch
debugEngine ==
    <<procState, exitCode, debugger, crashed, tokenCounter, resposeExpected,
      tempBuffer, written, outRest, streamLog, breakpoints, terminated, invoked,
      lastRecord, lastCmd, nIssued, session, startCalls, nRegs, nEvents,
      pc, fired, stackFrames, blocking, lastReturn, threads, wire, launch>>

\* ------------------------------------------------------------------ text
DigitChars == <<"0", "1", "2", "3", "4", "5", "6", "7", "8", "9">>

IsDigit(c) == \E i \in 1..10 : DigitChars[i] = c

DigitValue(c) == (CHOOSE i \in 1..10 : DigitChars[i] = c) - 1

RECURSIVE ToDecimal(_)
\* QString::number(n, 10) for n >= 0: the decimal digits, most significant first
ToDecimal(n) ==
    IF n < 10 THEN <<DigitChars[n + 1]>>
    ELSE Append(ToDecimal(n \div 10), DigitChars[(n % 10) + 1])

RECURSIVE Fill(_, _)
Fill(c, k) == IF k <= 0 THEN <<>> ELSE <<c>> \o Fill(c, k - 1)

\* QString{"%1"}.arg(n, fieldWidth, 10, fillChar): right-aligned in fieldWidth,
\* padded on the left, never truncated
ArgPadded(n, fieldWidth, fillChar) ==
    Fill(fillChar, fieldWidth - Len(ToDecimal(n))) \o ToDecimal(n)

\* a token written without its field width
tokStrUnpadded(token) == ToDecimal(token)

\* part_001:133  auto tokStr = QString{"%1"}.arg(d->tokenCounter, 6, 10, QChar{'0'});
tokStr(token) == ArgPadded(token, TokenWidth, "0")

\* part_001:134  auto line = QString{"%1%2%3"}.arg(tokStr, cmd, "\n");
CommandLine(token, cmd) == tokStr(token) \o cmd \o <<"\n">>

\* part_001:135  d->tokenCounter = (d->tokenCounter + 1) % 999999;
NextToken(token) == (token + 1) % TokenModulus

\* ------------------------------------------------------ correlation table
EmptyTable == [t \in {} |-> 0]

\* the two ResponseAction_t values; Temporal is the one-shot action
Actions == {"Temporal", "Persistent"}

\* QHash::insert(key, value): adds the key or replaces its value
Insert(tbl, token, entry) ==
    [t \in (DOMAIN tbl) \cup {token} |-> IF t = token THEN entry ELSE tbl[t]]

\* QHash::remove(key)
Remove(tbl, token) == [t \in (DOMAIN tbl) \ {token} |-> tbl[t]]

\* the breakpoints a payload of the debugger may describe: the bkpt tuple as
\* one word, and the number, file and line it holds
PayloadBkpts ==
    {[word |-> "bkpt={number=1,file=main.c,line=10}",
      id |-> 1, file |-> "main.c", line |-> 10],
     [word |-> "bkpt={number=2,file=util.c,line=20}",
      id |-> 2, file |-> "util.c", line |-> 20]}

\* the breakpoint the debugger numbers 1
PayloadBkpts1 == CHOOSE b \in PayloadBkpts : b.id = 1

\* the breakpoint ids the debugger assigns
BkptIds == {b.id : b \in PayloadBkpts}

\* the result classes of the success family that the model uses
SuccessClasses == {"done"}

\* the bkpt tuples a payload holds
BkptsIn(payload) ==
    {b \in PayloadBkpts : \E i \in 1..Len(payload) : payload[i] = b.word}

\* Debugger::parseBreakPoint: the breakpoint of a success payload joins the
\* table under the id the debugger gave it, with its file and line; an
\* error payload changes nothing
parseBreakPoint(bps, payload) ==
    IF payload # <<>> /\ payload[1] \in SuccessClasses /\ BkptsIn(payload) # {}
    THEN LET b == CHOOSE x \in BkptsIn(payload) : TRUE
         IN  Insert(bps, b.id, [file |-> b.file, line |-> b.line, enabled |-> TRUE])
    ELSE bps

\* Debugger::removeBreakPoint
removeBreakPoint(bps, bpid) == Remove(bps, bpid)

\* Debugger::clearBreakPoint
clearBreakPoint(bps) == EmptyTable

\* the closures the callers register. The closure of breakRemove captures
\* bpid: its name carries the id
RemoveHandlers ==
    <<"removeBreakPoint(1)", "removeBreakPoint(2)", "removeBreakPoint(3)">>

Handlers == {"parseBreakPoint", "clearBreakPoint"}
            \cup {RemoveHandlers[id] : id \in BkptIds}

\* [this, bpid] of part_001:200
CapturedId(handler) ==
    CHOOSE id \in DOMAIN RemoveHandlers : RemoveHandlers[id] = handler

\* Debugger::breakpointsForFile: the ids of the breakpoints the table has
\* for the file, lowest first
RECURSIVE breakpointsForFile(_, _)
breakpointsForFile(bps, filePath) ==
    LET ids == {id \in DOMAIN bps : bps[id].file = filePath}
    IN  IF ids = {} THEN <<>>
        ELSE LET low == CHOOSE m \in ids : \A o \in ids : m <= o
             IN  <<low>> \o breakpointsForFile(Remove(bps, low), filePath)

\* a closure of breakInsert that files the breakpoint under an id of the
\* engine's own, the next free one
HandlerOwnId(handler, bps, payload) ==
    IF handler = "parseBreakPoint"
    THEN LET parsed == parseBreakPoint(EmptyTable, payload)
         IN  IF parsed = EmptyTable THEN bps
             ELSE LET own == Cardinality(DOMAIN bps) + 1
                      b == parsed[CHOOSE id \in DOMAIN parsed : TRUE]
                  IN  Insert(bps, own, b)
    ELSE IF handler = "clearBreakPoint" THEN clearBreakPoint(bps)
    ELSE removeBreakPoint(bps, CapturedId(handler))

\* a closure of breakRemove that removes the breakpoint set last (the
\* highest id) instead of the one it was called for
HandlerRemovesLast(handler, bps, payload) ==
    IF handler = "parseBreakPoint" THEN parseBreakPoint(bps, payload)
    ELSE IF handler = "clearBreakPoint" THEN clearBreakPoint(bps)
    ELSE IF bps = EmptyTable THEN bps
    ELSE removeBreakPoint(bps, CHOOSE m \in DOMAIN bps : \A o \in DOMAIN bps : m >= o)

\* a closure of breakRemoveAll that removes the breakpoints it knew of when
\* it was registered (here: the lowest id), not the whole table
HandlerClearsKnown(handler, bps, payload) ==
    IF handler = "parseBreakPoint" THEN parseBreakPoint(bps, payload)
    ELSE IF handler = "clearBreakPoint"
         THEN IF bps = EmptyTable THEN bps
              ELSE removeBreakPoint(bps, CHOOSE m \in DOMAIN bps :
                                              \A o \in DOMAIN bps : m <= o)
    ELSE removeBreakPoint(bps, CapturedId(handler))

\* the bodies of the closures: breakRemoveAll (part_001:168-170) and
\* breakRemove (part_001:200-202) do not look at the payload, breakInsert
\* (part_001:175-177) hands it to parseBreakPoint
HandlerCall(handler, bps, payload) ==
    IF handler = "parseBreakPoint" THEN parseBreakPoint(bps, payload)
    ELSE IF handler = "clearBreakPoint" THEN clearBreakPoint(bps)
    ELSE removeBreakPoint(bps, CapturedId(handler))

\* a closure of breakRemoveAll that asks for the stack when the table is
\* cleared: stackListFrames(), and with it waitLocker(), inside dispatch
closureWaitsOnClear(handler) == handler = "clearBreakPoint"

\* whether a closure calls waitLocker(): the three closures (part_001:
\* 168-170, 175-177, 200-202) call one method of the adapter each, and
\* none of the blocking operations
closureWaits(handler) == FALSE

\* expect.handler(payload), part_001:184
Invocation(s, expect, token, payload) ==
    [s EXCEPT
       !.invoked = Append(@, [reg |-> expect.reg, handler |-> expect.handler,
                              action |-> expect.action, token |-> token,
                              payload |-> payload,
                              registeredIn |-> expect.session,
                              calledIn |-> session, atIssue |-> nIssued]),
       !.breakpoints = HandlerCall(expect.handler, @, payload),
       !.waits = @ \/ closureWaits(expect.handler)]

\* a dispatch that never removes the entry
updateKeepsEntry(s, token, payload) ==
    IF token \in DOMAIN s.resposeExpected
    THEN Invocation(s, s.resposeExpected[token], token, payload)
    ELSE s

\* a dispatch that removes the entry whatever its action
updateAlwaysRemoves(s, token, payload) ==
    IF token \in DOMAIN s.resposeExpected
    THEN [Invocation(s, s.resposeExpected[token], token, payload)
             EXCEPT !.resposeExpected = Remove(s.resposeExpected, token)]
    ELSE s

\* a dispatch that gives a record with an unknown token to the oldest entry
updateFallsBack(s, token, payload) ==
    LET known == DOMAIN s.resposeExpected
        t == IF token \in known \/ known = {} THEN token
             ELSE CHOOSE m \in known : \A o \in known : m <= o
    IN  IF t \in known
        THEN [Invocation(s, s.resposeExpected[t], t, payload)
                 EXCEPT !.resposeExpected =
                           IF s.resposeExpected[t].action = "Temporal"
                           THEN Remove(s.resposeExpected, t)
                           ELSE s.resposeExpected]
        ELSE s

\* DebugManager::updateExceptResponse on the reader's state s
\* (s.resposeExpected, s.invoked): the handler runs, a Temporal entry leaves
updateExceptResponse(s, token, payload) ==
    IF token \in DOMAIN s.resposeExpected
    THEN LET expect == s.resposeExpected[token]
             called == Invocation(s, expect, token, payload)
         IN  IF expect.action = "Temporal"
             THEN [called EXCEPT !.resposeExpected = Remove(s.resposeExpected, token)]
             ELSE called
    ELSE s

\* ------------------------------------------------------------- decoding
\* the bytes of the one two-byte character of the model, U+00E9, in UTF-8;
\* every other byte of the model is an ASCII character and stands for itself
LeadByte == "0xC3"

ContinuationByte == "0xA9"

\* QString::fromUtf8 on one chunk of bytes: a whole sequence becomes its
\* character, a byte that is no part of a whole sequence within the chunk
\* becomes U+FFFD
RECURSIVE fromUtf8(_)
fromUtf8(bytes) ==
    IF bytes = <<>> THEN <<>>
    ELSE IF Head(bytes) = LeadByte
    THEN IF Len(bytes) >= 2 /\ bytes[2] = ContinuationByte
         THEN <<"U+00E9">> \o fromUtf8(Tail(Tail(bytes)))
         ELSE <<"U+FFFD">> \o fromUtf8(Tail(bytes))
    ELSE IF Head(bytes) = ContinuationByte
    THEN <<"U+FFFD">> \o fromUtf8(Tail(bytes))
    ELSE <<Head(bytes)>> \o fromUtf8(Tail(bytes))

\* part_001:48  QString{d->process->readAllStandardOutput()}: each chunk
\* is decoded on its own
chunkToString(bytes) == fromUtf8(bytes)

\* part_001:52-53  the characters that end a line
IsTerminator(c) == c = "\r" \/ c = "\n"

\* the bytes that came after the last terminator
RECURSIVE SinceTerminator(_)
SinceTerminator(bytes) ==
    IF bytes = <<>> \/ IsTerminator(bytes[Len(bytes)]) THEN <<>>
    ELSE SinceTerminator(SubSeq(bytes, 1, Len(bytes) - 1))
         \o <<bytes[Len(bytes)]>>

\* QString::toUtf8: the bytes that a text stands for
RECURSIVE toUtf8(_)
toUtf8(text) ==
    IF text = <<>> THEN <<>>
    ELSE (IF Head(text) = "U+00E9" THEN <<LeadByte, ContinuationByte>>
          ELSE IF Head(text) = "U+FFFD" THEN <<"0xEF", "0xBF", "0xBD">>
          ELSE <<Head(text)>>)
         \o toUtf8(Tail(text))

\* ------------------------------------------------------- the record parser
\* the longest run of digits a line starts with
RECURSIVE DigitRun(_)
DigitRun(line) ==
    IF line # <<>> /\ IsDigit(Head(line))
    THEN <<Head(line)>> \o DigitRun(Tail(line))
    ELSE <<>>

RECURSIVE DecimalValue(_)
\* QString::toInt of a run of digits
DecimalValue(digits) ==
    IF digits = <<>> THEN 0
    ELSE DecimalValue(SubSeq(digits, 1, Len(digits) - 1)) * 10
         + DigitValue(digits[Len(digits)])

AfterDigits(line) == SubSeq(line, Len(DigitRun(line)) + 1, Len(line))

\* a result record: an echoed token (a run of digits), '^', the result class
IsResultRecord(line) ==
    /\ DigitRun(line) # <<>>
    /\ Len(AfterDigits(line)) >= 3
    /\ AfterDigits(line)[1] = "^"

RecordToken(line) == DecimalValue(DigitRun(line))

\* the payload: the result class and what follows it, without the terminator
RecordPayload(line) == SubSeq(AfterDigits(line), 2, Len(AfterDigits(line)) - 1)

\* a locker that is a bare signal: a fire() with nobody waiting is lost
fireBareSignal(flag, waiting) == flag \/ waiting

\* ConditionLockEx::fire: sets the flag, whether or not a caller waits
fire(flag, waiting) == TRUE

\* DebugManager::fireLocker in the reader's context
fireLocker(s) == [s EXCEPT !.fired = fire(@, pc = "waiting")]

\* the stack-frame lists a payload of the debugger may hold, each one word
StackWords == {"stack=[frame={level=0,func=main}]"}

StackIn(payload) ==
    {w \in StackWords : \E i \in 1..Len(payload) : payload[i] = w}

\* the adapter's list interpreter for a stack-list-frames result: it
\* replaces the snapshot and then fires the locker. stackListFrames
\* registers nothing under its token (part_001:205-209), so the interpreter
\* is chosen by what the payload holds
interpretStack(s, token, payload) ==
    IF payload # <<>> /\ payload[1] \in SuccessClasses /\ StackIn(payload) # {}
    THEN fireLocker([s EXCEPT !.stackFrames =
                                [frames |-> CHOOSE w \in StackIn(payload) : TRUE,
                                 token |-> token, rec |-> s.lastRecord.n]])
    ELSE s

\* an adapter that keeps error-class results to itself: they go to the
\* log, never to the correlation table
handleDropsErrors(s0, record) ==
    LET s == [s0 EXCEPT !.lastRecord = [n |-> @.n + 1, text |-> record],
                        !.forwarded = Append(@, record)]
    IN  IF IsResultRecord(record) /\ RecordPayload(record)[1] # "error"
        THEN LET t == RecordToken(record)
                 r == interpretStack(
                        updateExceptResponse(s, t, RecordPayload(record)),
                        t, RecordPayload(record))
             IN  IF t \in DOMAIN s.resposeExpected THEN r
                 ELSE [r EXCEPT !.streamLog = @ + 1]
        ELSE [s EXCEPT !.streamLog = @ + 1]

\* an adapter that takes every record that starts with a token for a
\* result record, whatever follows the token
handleAnyToken(s0, record) ==
    LET s == [s0 EXCEPT !.lastRecord = [n |-> @.n + 1, text |-> record],
                        !.forwarded = Append(@, record)]
    IN  IF DigitRun(record) # <<>>
        THEN LET t == RecordToken(record)
                 r == interpretStack(
                        updateExceptResponse(s, t, RecordPayload(record)),
                        t, RecordPayload(record))
             IN  IF t \in DOMAIN s.resposeExpected THEN r
                 ELSE [r EXCEPT !.streamLog = @ + 1]
        ELSE [s EXCEPT !.streamLog = @ + 1]

\* Debugger::handleOutputRecord: a result record goes to the correlation
\* table and to the interpreter of its payload, everything else (async,
\* stream, prompt, noise) to the log
handleOutputRecord(s0, record) ==
    LET s == [s0 EXCEPT !.lastRecord = [n |-> @.n + 1, text |-> record],
                        !.forwarded = Append(@, record)]
    IN  IF IsResultRecord(record)
        THEN LET t == RecordToken(record)
                 r == interpretStack(
                        updateExceptResponse(s, t, RecordPayload(record)),
                        t, RecordPayload(record))
             IN  IF t \in DOMAIN s.resposeExpected THEN r
                 ELSE [r EXCEPT !.streamLog = @ + 1]
        ELSE [s EXCEPT !.streamLog = @ + 1]

\* the readyReadStandardOutput handler, part_001:47-64, one character at a time
RECURSIVE ReadChars(_, _)
ReadChars(s, chars) ==
    IF chars = <<>> THEN s
    ELSE LET c == Head(chars)
             appended == Append(s.tempBuffer, c)
         IN  IF c = "\r" \/ c = "\n"
             THEN ReadChars([handleOutputRecord(s, appended)
                                EXCEPT !.tempBuffer = <<>>],
                            Tail(chars))
             ELSE ReadChars([s EXCEPT !.tempBuffer = appended], Tail(chars))

\* the part of the state the reader works on
ReaderState ==
    [tempBuffer |-> tempBuffer, resposeExpected |-> resposeExpected,
     invoked |-> invoked, streamLog |-> streamLog, breakpoints |-> breakpoints,
     lastRecord |-> lastRecord, stackFrames |-> stackFrames, fired |-> fired,
     forwarded |-> <<>>, waits |-> FALSE]

\* ------------------------------------------------------------ the inputs
\* the text of a fire-and-forget call: command() takes any text, also one
\* that starts with a digit
CmdTexts == {<<"7", "x">>}

\* the correlated calls: breakInsert, breakRemoveAll and breakRemove(bpid),
\* which leave the action to its default, the one-shot Temporal, and a
\* direct commandAndResponse that asks for a Persistent entry
Correlated ==
    {[text |-> <<"-", "b", "i">>, handler |-> "parseBreakPoint",
      action |-> "Temporal"],
     [text |-> <<"-", "b", "d">>, handler |-> "clearBreakPoint",
      action |-> "Temporal"],
     [text |-> <<"-", "b", "i">>, handler |-> "parseBreakPoint",
      action |-> "Persistent"]}
    \cup {[text |-> <<"-", "b", "d", DigitChars[id + 1]>>,
           handler |-> RemoveHandlers[id], action |-> "Temporal"] :
             id \in BkptIds}

ExitCodes == {0, 1}

Programs == {"gdb", "lldb"}

\* tokens the debugger may echo: pending ones, the last one issued and ones
\* already answered; the next one (never issued so far) when there is no other
EchoTokens ==
    LET known == (DOMAIN resposeExpected)
                 \cup {i.token : i \in {invoked[k] : k \in 1..Len(invoked)}}
                 \cup (IF lastCmd.n > 0 THEN {lastCmd.token} ELSE {})
    IN  IF known = {} THEN {tokenCounter} ELSE known

\* the payloads of the result records the debugger may send: a breakpoint
\* set, an error
Payloads ==
    {<<"done", b.word>> : b \in PayloadBkpts}
    \cup {<<"done", w>> : w \in StackWords} \cup {<<"error">>}

ResultLines ==
    {tokStr(t) \o <<"^">> \o payload \o <<"\n">> :
        t \in EchoTokens, payload \in Payloads}

\* an exec-async record, and a console stream record that ends in CR LF
OtherLines == {<<"*", "stopped", "\n">>, <<"~", "text", "\r", "\n">>}

\* the lines that the model lets arrive in two pieces: these, and the
\* result records of class error
SplitLines ==
    OtherLines
    \cup {tokStr(t) \o <<"^", "error", "\n">> : t \in EchoTokens}

\* the output lines of the reading scenario: the two above, and a console
\* stream record whose text is the two-byte character
WireLines == OtherLines \cup {<<"~", LeadByte, ContinuationByte, "\n">>}

\* everything the debugger prints that is no result record: the stream
\* records, the async records (one of them with the token of a pending
\* command in front), the prompt, and lines of no known form (one of them
\* a token with no '^' after it)
NoiseLines ==
    {<<c, "text", "\n">> : c \in {"~", "@", "&"}}
    \cup {<<c, "stopped", "\n">> : c \in {"*", "+", "="}}
    \cup {<<"1", "*", "stopped", "\n">>, <<"(gdb)", "\n">>,
          <<"1", "done", "\n">>, <<"text", "^", "done", "\n">>}

\* the argument lists a client gives to initDebugger
ArgLists == {<<"a.out">>}

\* Debugger::preArguments of the GDB adapter
preArguments == <<"-q", "-interpreter=mi">>

\* part_001:123-125  foreach (QString arg, preArguments) a.prepend(arg)
RECURSIVE prependEach(_, _)
prependEach(a, pre) ==
    IF pre = <<>> THEN a
    ELSE prependEach(<<Head(pre)>> \o a, Tail(pre))

\* QProcess::setArguments: the list is taken unless the process is running
\* or starting
setArguments(l, arguments) ==
    IF procState = "NotRunning"
    THEN [l EXCEPT !.stored = arguments, !.given = arguments]
    ELSE l

\* ------------------------------------------------------------------ state
\* ------------------------------------------- Controller, TextEditorManager
\* QMap::operator[] on a map that is not const: a key that is missing is
\* inserted with a default-constructed value, the null pointer
Subscript(map, key) ==
    IF key \in DOMAIN map THEN map ELSE Insert(map, key, 0)

\* the state after Controller::Controller and TextEditorManager::
\* TextEditorManager: no widget registered, no editor created
NoPlugins ==
    /\ widgetWaitForAdd = EmptyTable
    /\ addedWidget = EmptyTable
    /\ modeInfo = <<>>
    /\ mainWindow = EmptyTable
    /\ widgetsGiven = EmptyTable
    /\ editorHash = EmptyTable
    /\ editorsMade = <<>>

\* how many widgets are registered to modes in a run
MaxModeInfo == 2

\* the names, the widgets (none of them null) and the modes a plugin may
\* pass; d->validModeList (controller.cpp:97) has CM_EDIT
Names == {"a", "b"}

Widgets == {1, 2}

Modes == {"CM_EDIT", "CM_NONE"}

validModeList == {"CM_EDIT", "CM_DEBUG", "CM_RECENT"}

\* MainWindow::addWidget: the widget is docked under the name, and shown
addWidget(docks, name) == Insert(docks, name, "shown")

\* MainWindow::showWidget(name), MainWindow::hideWidget(name)
showWidget(docks, name) ==
    IF name \in DOMAIN docks THEN Insert(docks, name, "shown") ELSE docks

hideWidget(docks, name) ==
    IF name \in DOMAIN docks THEN Insert(docks, name, "hidden") ELSE docks

\* MainWindow::hideWidget(pos): every dock at the position; the model has
\* one position
hideWidgetAt(docks) == [n \in DOMAIN docks |-> "hidden"]

\* the widget is noted as registered under the name
Given(name, widget) ==
    Insert(widgetsGiven, name,
           (IF name \in DOMAIN widgetsGiven THEN widgetsGiven[name] ELSE {})
           \cup {widget})

\* controller.cpp:367-377  Controller::registerWidget: what it leaves in
\* d->widgetWaitForAdd
registerWidgetResult(name, widget) ==
    IF name \in DOMAIN widgetWaitForAdd \/ name \in DOMAIN addedWidget
    THEN widgetWaitForAdd
    ELSE Insert(widgetWaitForAdd, name, widget)

\* Controller::registerWidget
registerWidget(name, widget) ==
    /\ widgetWaitForAdd' = registerWidgetResult(name, widget)
    /\ widgetsGiven' = IF widgetWaitForAdd' = widgetWaitForAdd THEN widgetsGiven
                       ELSE Given(name, widget)
    /\ UNCHANGED <<addedWidget, modeInfo, mainWindow, editorHash, editorsMade,
                   debugEngine>>

\* controller.cpp:342-365  Controller::registerWidgetToMode
registerWidgetToMode(name, widget, mode) ==
    /\ Len(modeInfo) < MaxModeInfo
    /\ IF mode \notin validModeList
       THEN UNCHANGED <<addedWidget, mainWindow, modeInfo, widgetsGiven>>
       ELSE /\ addedWidget' = Insert(addedWidget, name, widget)
            /\ mainWindow' = hideWidget(addWidget(mainWindow, name), name)
            /\ modeInfo' = Append(modeInfo, [mode |-> mode, name |-> name])
            /\ widgetsGiven' = Given(name, widget)
    /\ UNCHANGED <<widgetWaitForAdd, editorHash, editorsMade, debugEngine>>

\* controller.cpp:333  d->addedWidget.insert(name, d->widgetWaitForAdd[name])
insertAdded(name) ==
    Insert(addedWidget, name, Subscript(widgetWaitForAdd, name)[name])

\* controller.cpp:322-335  Controller::insertWidget
insertWidget(name) ==
    /\ IF name \in DOMAIN widgetWaitForAdd
       THEN /\ mainWindow' = addWidget(mainWindow, name)
            /\ addedWidget' = insertAdded(name)
            /\ widgetWaitForAdd' = Remove(Subscript(widgetWaitForAdd, name), name)
       ELSE IF name \in DOMAIN addedWidget
       THEN /\ mainWindow' = showWidget(mainWindow, name)
            /\ addedWidget' = insertAdded(name)
            /\ widgetWaitForAdd' = Remove(Subscript(widgetWaitForAdd, name), name)
       ELSE UNCHANGED <<mainWindow, addedWidget, widgetWaitForAdd>>
    /\ UNCHANGED <<modeInfo, widgetsGiven, editorHash, editorsMade, debugEngine>>

\* controller.cpp:379-394  Controller::showWidgetAtPosition
showWidgetAtPosition(name, replace) ==
    LET docks == IF replace THEN hideWidgetAt(mainWindow) ELSE mainWindow
    IN
    /\ IF name \in DOMAIN widgetWaitForAdd
       THEN /\ mainWindow' = addWidget(docks, name)
            /\ addedWidget' = Insert(addedWidget, name, widgetWaitForAdd[name])
            /\ widgetWaitForAdd' = Remove(widgetWaitForAdd, name)
       ELSE IF name \in DOMAIN addedWidget
       THEN /\ mainWindow' = showWidget(docks, name)
            /\ UNCHANGED <<addedWidget, widgetWaitForAdd>>
       ELSE /\ mainWindow' = docks
            /\ UNCHANGED <<addedWidget, widgetWaitForAdd>>
    /\ UNCHANGED <<modeInfo, widgetsGiven, editorHash, editorsMade, debugEngine>>

\* the plugins call the Controller
NextController ==
    \/ \E name \in Names : \E widget \in Widgets : registerWidget(name, widget)
    \/ \E name \in Names : \E widget \in Widgets : \E mode \in Modes :
          registerWidgetToMode(name, widget, mode)
    \/ \E name \in Names : insertWidget(name)
    \/ \E name \in Names : \E replace \in BOOLEAN :
          showWidgetAtPosition(name, replace)

\* how many editors are created in a run
MaxEditors == 3

\* the file names a caller may pass
FileNames == {"a.c", "b.c"}

\* codegeexmanager.cpp:190-193  TextEditorManager::findEditor:
\* d->editorHash.value(fileName, nullptr); 0 is the null pointer
findEditor(fileName) ==
    IF fileName \in DOMAIN editorHash THEN editorHash[fileName] ELSE 0

\* codegeexmanager.cpp:178-188  TextEditorManager::createEditor: the new
\* editor is the next one made, and the hash has it under the file name
createEditor(fileName) ==
    /\ Len(editorsMade) < MaxEditors
    /\ editorsMade' = Append(editorsMade, [file |-> fileName, alive |-> TRUE])
    /\ editorHash' = Insert(editorHash, fileName, Len(editorsMade) + 1)
    /\ UNCHANGED <<widgetWaitForAdd, addedWidget, modeInfo, mainWindow,
                   widgetsGiven, debugEngine>>

\* codegeexmanager.cpp:211-214  TextEditorManager::onEditorDestroyed
onEditorDestroyed(fileName) == Remove(editorHash, fileName)

\* an editor is destroyed: its destroyed signal calls the closure connected
\* at codegeexmanager.cpp:182, which has the file name the editor was
\* created with
EditorDestroyed(editor) ==
    /\ editor \in 1..Len(editorsMade)
    /\ editorsMade[editor].alive
    /\ editorsMade' = [editorsMade EXCEPT ![editor].alive = FALSE]
    /\ editorHash' = onEditorDestroyed(editorsMade[editor].file)
    /\ UNCHANGED <<widgetWaitForAdd, addedWidget, modeInfo, mainWindow,
                   widgetsGiven, debugEngine>>

\* editors are created and destroyed
NextEditors ==
    \/ \E fileName \in FileNames : createEditor(fileName)
    \/ \E editor \in 1..MaxEditors : EditorDestroyed(editor)

\* a process that was given no arguments and never started
NoLaunch == [stored |-> <<>>, given |-> <<>>, started |-> <<>>]

\* after initDebugger("gdb", {"a.out"}) and one execute()
FirstLaunch ==
    LET a == prependEach(<<"a.out">>, preArguments)
    IN  [stored |-> a, given |-> <<"a.out">>, started |-> a]

NoCmd == [n |-> 0, token |-> 0, text |-> <<>>, line |-> <<>>,
          state |-> "NotRunning", session |-> 0, registered |-> FALSE,
          sinceRec |-> 0, pending |-> FALSE]

NoneWritten == [n |-> 0, last |-> <<>>]

\* nothing read yet
NoWire == [received |-> <<>>, forwarded |-> <<>>]

\* no snapshot yet, no blocking call yet
NoFrames == [frames |-> "", token |-> 0, rec |-> 0]

NoBlocking == [n |-> 0, token |-> 0, sinceRec |-> 0]

NoReturn == [n |-> 0, kind |-> "none", blocked |-> FALSE]

\* the threads that may be inside the engine at one time: two callers
\* (DebugManager::instance() is open to every thread) and the reader
Callers == {1, 2}

\* what a caller thread calls
CallKinds == {"command", "commandAndResponse"}

\* no thread is inside a call
NoThreads ==
    [pc |-> [c \in Callers |-> "idle"],
     kind |-> [c \in Callers |-> "none"],
     key |-> [c \in Callers |-> 0],
     seen |-> [c \in Callers |-> EmptyTable],
     reg |-> [c \in Callers |-> 0],
     tok |-> [c \in Callers |-> 0],
     nxt |-> [c \in Callers |-> 0],
     reader |-> "idle", readerSeen |-> EmptyTable,
     stdin |-> <<>>, start |-> 0]

\* the Sync Bridge after DebugManager::DebugManager, and no call under way
InitSync ==
    /\ threads = NoThreads
    /\ pc = "idle"
    /\ fired = FALSE
    /\ stackFrames = NoFrames
    /\ blocking = NoBlocking
    /\ lastReturn = NoReturn

\* the state after DebugManager::DebugManager
Init ==
    /\ launch = NoLaunch
    /\ NoPlugins
    /\ procState = "NotRunning"
    /\ exitCode = 0
    /\ debugger = "null"
    /\ crashed = FALSE
    /\ tokenCounter = 0
    /\ resposeExpected = EmptyTable
    /\ tempBuffer = <<>>
    /\ written = NoneWritten
    /\ outRest = <<>>
    /\ streamLog = 0
    /\ breakpoints = EmptyTable
    /\ terminated = <<>>
    /\ invoked = <<>>
    /\ lastRecord = [n |-> 0, text |-> <<>>]
    /\ lastCmd = NoCmd
    /\ nIssued = 0
    /\ session = 0
    /\ startCalls = 0
    /\ nRegs = 0
    /\ nEvents = 0
    /\ InitSync
    /\ wire = NoWire

\* a session that has issued TokenModulus - WrapLead commands since its
\* started event and got no output: all of them fire-and-forget, or the
\* first one a commandAndResponse that asked for a Persistent entry, which
\* is still in the table under token 0; the run explores WrapLead + 1 more
\* events
InitWrap ==
    /\ launch = FirstLaunch
    /\ NoPlugins
    /\ procState = "Running"
    /\ exitCode = 0
    /\ debugger = "gdb"
    /\ crashed = FALSE
    /\ tokenCounter = TokenModulus - WrapLead
    /\ \E retained \in BOOLEAN :
          /\ resposeExpected =
                IF retained
                THEN Insert(EmptyTable, 0,
                            [action |-> "Persistent", handler |-> "parseBreakPoint",
                             reg |-> 1, session |-> 1])
                ELSE EmptyTable
          /\ nRegs = IF retained THEN 1 ELSE 0
    /\ tempBuffer = <<>>
    /\ written = [n |-> TokenModulus - WrapLead,
                  last |-> CommandLine(TokenModulus - WrapLead - 1, <<"-", "q">>)]
    /\ outRest = <<>>
    /\ streamLog = TokenModulus - WrapLead
    /\ breakpoints = EmptyTable
    /\ terminated = <<>>
    /\ invoked = <<>>
    /\ lastRecord = [n |-> 0, text |-> <<>>]
    /\ lastCmd = [n |-> TokenModulus - WrapLead,
                  token |-> TokenModulus - WrapLead - 1,
                  text |-> <<"-", "q">>,
                  line |-> CommandLine(TokenModulus - WrapLead - 1, <<"-", "q">>),
                  state |-> "Running", session |-> 1, registered |-> FALSE,
                  sinceRec |-> 0, pending |-> FALSE]
    /\ nIssued = TokenModulus - WrapLead
    /\ session = 1
    /\ startCalls = 1
    /\ nEvents = MaxEvents - (WrapLead + 1)
    /\ InitSync
    /\ wire = NoWire

\* a session that has issued TokenModulus commands since its started event
\* and got no output: the counter is back at 0, and the Persistent entry
\* that the first command registered is still in the table under token 0;
\* the run explores 2 more events
InitWrapped ==
    LET quit == <<"-", "q">>
    IN
    /\ launch = FirstLaunch
    /\ NoPlugins
    /\ procState = "Running"
    /\ exitCode = 0
    /\ debugger = "gdb"
    /\ crashed = FALSE
    /\ tokenCounter = 0
    /\ resposeExpected =
          Insert(EmptyTable, 0,
                 [action |-> "Persistent", handler |-> "parseBreakPoint",
                  reg |-> 1, session |-> 1])
    /\ nRegs = 1
    /\ tempBuffer = <<>>
    /\ written = [n |-> TokenModulus,
                  last |-> CommandLine(TokenModulus - 1, quit)]
    /\ outRest = <<>>
    /\ streamLog = TokenModulus
    /\ breakpoints = EmptyTable
    /\ terminated = <<>>
    /\ invoked = <<>>
    /\ lastRecord = [n |-> 0, text |-> <<>>]
    /\ lastCmd = [n |-> TokenModulus, token |-> TokenModulus - 1,
                  text |-> quit, line |-> CommandLine(TokenModulus - 1, quit),
                  state |-> "Running", session |-> 1, registered |-> FALSE,
                  sinceRec |-> 0, pending |-> FALSE]
    /\ nIssued = TokenModulus
    /\ session = 1
    /\ startCalls = 1
    /\ nEvents = MaxEvents - 2
    /\ InitSync
    /\ wire = NoWire

\* a session whose process has just started: nothing sent, nothing read
InitRead ==
    /\ launch = FirstLaunch
    /\ NoPlugins
    /\ procState = "Running"
    /\ exitCode = 0
    /\ debugger = "gdb"
    /\ crashed = FALSE
    /\ tokenCounter = 0
    /\ resposeExpected = EmptyTable
    /\ tempBuffer = <<>>
    /\ written = NoneWritten
    /\ outRest = <<>>
    /\ streamLog = 0
    /\ breakpoints = EmptyTable
    /\ terminated = <<>>
    /\ invoked = <<>>
    /\ lastRecord = [n |-> 0, text |-> <<>>]
    /\ lastCmd = NoCmd
    /\ nIssued = 0
    /\ session = 1
    /\ startCalls = 1
    /\ nRegs = 0
    /\ nEvents = 1
    /\ InitSync
    /\ wire = NoWire

\* the breakpoints of the removal scenario: two in main.c, one in util.c
ThreeBkpts ==
    Insert(Insert(Insert(EmptyTable,
        1, [file |-> "main.c", line |-> 10, enabled |-> TRUE]),
        2, [file |-> "util.c", line |-> 20, enabled |-> TRUE]),
        3, [file |-> "main.c", line |-> 30, enabled |-> TRUE])

\* the files a client names
Files == {"main.c", "util.c", "none.c"}

\* a running session after three breakInsert calls, all answered: the
\* table has the three breakpoints and nothing is pending; the run
\* explores MaxEvents more events
InitRemove ==
    LET insert == <<"-", "b", "i">>
        answered(k) ==
           [reg |-> k, handler |-> "parseBreakPoint", action |-> "Temporal",
            token |-> k - 1,
            payload |-> <<"done", "bkpt={number=" \o DigitChars[k + 1] \o "}">>,
            registeredIn |-> 1, calledIn |-> 1, atIssue |-> 3]
    IN
    /\ launch = FirstLaunch
    /\ NoPlugins
    /\ procState = "Running"
    /\ exitCode = 0
    /\ debugger = "gdb"
    /\ crashed = FALSE
    /\ tokenCounter = 3
    /\ resposeExpected = EmptyTable
    /\ tempBuffer = <<>>
    /\ written = [n |-> 3, last |-> CommandLine(2, insert)]
    /\ outRest = <<>>
    /\ streamLog = 3
    /\ breakpoints = ThreeBkpts
    /\ terminated = <<>>
    /\ invoked = <<answered(1), answered(2), answered(3)>>
    /\ lastRecord = [n |-> 3,
                     text |-> tokStr(2) \o <<"^", "done", "bkpt={number=3}", "\n">>]
    /\ lastCmd = [n |-> 3, token |-> 2, text |-> insert,
                  line |-> CommandLine(2, insert), state |-> "Running",
                  session |-> 1, registered |-> TRUE, sinceRec |-> 2,
                  pending |-> FALSE]
    /\ nIssued = 3
    /\ session = 1
    /\ startCalls = 1
    /\ nRegs = 3
    /\ nEvents = 0
    /\ InitSync
    /\ wire = [received |-> tokStr(2) \o <<"^", "done", "bkpt={number=3}", "\n">>,
               forwarded |-> <<tokStr(2) \o <<"^", "done", "bkpt={number=3}", "\n">>>>]

\* a running session after one breakInsert, under token 0, not answered
\* yet; no thread is inside the engine
InitRace ==
    LET insert == <<"-", "b", "i">>
    IN
    /\ launch = FirstLaunch
    /\ NoPlugins
    /\ procState = "Running"
    /\ exitCode = 0
    /\ debugger = "gdb"
    /\ crashed = FALSE
    /\ tokenCounter = 1
    /\ resposeExpected =
          Insert(EmptyTable, 0,
                 [action |-> "Temporal", handler |-> "parseBreakPoint",
                  reg |-> 1, session |-> 1])
    /\ nRegs = 1
    /\ tempBuffer = <<>>
    /\ written = [n |-> 1, last |-> CommandLine(0, insert)]
    /\ outRest = <<>>
    /\ streamLog = 1
    /\ breakpoints = EmptyTable
    /\ terminated = <<>>
    /\ invoked = <<>>
    /\ lastRecord = [n |-> 0, text |-> <<>>]
    /\ lastCmd = [n |-> 1, token |-> 0, text |-> insert,
                  line |-> CommandLine(0, insert), state |-> "Running",
                  session |-> 1, registered |-> TRUE, sinceRec |-> 0,
                  pending |-> FALSE]
    /\ nIssued = 1
    /\ session = 1
    /\ startCalls = 1
    /\ nEvents = 0
    /\ pc = "idle"
    /\ fired = FALSE
    /\ stackFrames = NoFrames
    /\ blocking = NoBlocking
    /\ lastReturn = NoReturn
    /\ threads = [NoThreads EXCEPT !.start = 1]
    /\ wire = NoWire

\* a running session after four calls: breakInsert, answered with
\* breakpoint 1, then a second breakInsert, breakRemoveAll and
\* breakRemove(1), all three still pending; the run explores 2 more events
InitBreak ==
    LET first == PayloadBkpts1
        insert == <<"-", "b", "i">>
        remove == <<"-", "b", "d", "1">>
        entry(handler, reg) == [action |-> "Temporal", handler |-> handler,
                                reg |-> reg, session |-> 1]
    IN
    /\ launch = FirstLaunch
    /\ NoPlugins
    /\ procState = "Running"
    /\ exitCode = 0
    /\ debugger = "gdb"
    /\ crashed = FALSE
    /\ tokenCounter = 4
    /\ resposeExpected =
          Insert(Insert(Insert(EmptyTable, 1, entry("parseBreakPoint", 2)),
                        2, entry("clearBreakPoint", 3)),
                 3, entry(RemoveHandlers[1], 4))
    /\ tempBuffer = <<>>
    /\ written = [n |-> 4, last |-> CommandLine(3, remove)]
    /\ outRest = <<>>
    /\ streamLog = 4
    /\ breakpoints =
          Insert(EmptyTable, first.id,
                 [file |-> first.file, line |-> first.line, enabled |-> TRUE])
    /\ terminated = <<>>
    /\ invoked = <<[reg |-> 1, handler |-> "parseBreakPoint", action |-> "Temporal",
                    token |-> 0, payload |-> <<"done", first.word>>,
                    registeredIn |-> 1, calledIn |-> 1, atIssue |-> 1]>>
    /\ lastRecord = [n |-> 1,
                     text |-> tokStr(0) \o <<"^", "done", first.word, "\n">>]
    /\ lastCmd = [n |-> 4, token |-> 3, text |-> remove,
                  line |-> CommandLine(3, remove), state |-> "Running",
                  session |-> 1, registered |-> TRUE, sinceRec |-> 1,
                  pending |-> FALSE]
    /\ nIssued = 4
    /\ session = 1
    /\ startCalls = 1
    /\ nRegs = 4
    /\ nEvents = MaxEvents - 2
    /\ InitSync
    /\ wire = [received |-> tokStr(0) \o <<"^", "done", first.word, "\n">>,
               forwarded |-> <<tokStr(0) \o <<"^", "done", first.word, "\n">>>>]

\* ---------------------------------------------------------------- actions
\* an isExecuting that is true only once the process has started
isRunning == procState = "Running"

\* DebugManager::isExecuting
isExecuting == procState # "NotRunning"

\* DebugManager::initDebugger: only a program whose path contains "gdb"
\* selects an adapter
initDebugger(program, arguments) ==
    /\ ~crashed
    /\ pc = "idle"
    /\ launch' = setArguments(launch, arguments)
    /\ debugger' = IF program = "gdb" THEN "gdb" ELSE debugger
    \* d->debugger.reset(new GDBDebugger()): a new adapter, its table and
    \* its snapshot empty
    /\ breakpoints' = IF program = "gdb" THEN EmptyTable ELSE breakpoints
    /\ stackFrames' = IF program = "gdb" THEN NoFrames ELSE stackFrames
    /\ UNCHANGED <<pc, fired, blocking, lastReturn, threads, wire, plugins>>
    /\ UNCHANGED <<procState, exitCode, crashed, tokenCounter, resposeExpected,
                   tempBuffer, written, outRest, streamLog, terminated, invoked,
                   lastRecord, lastCmd, nIssued, session, startCalls, nRegs,
                   nEvents>>

\* what execute() reads or assigns
ExecState ==
    [procState |-> procState, crashed |-> crashed, launch |-> launch,
     startCalls |-> startCalls, nEvents |-> nEvents, written |-> written,
     outRest |-> outRest, tokenCounter |-> tokenCounter,
     resposeExpected |-> resposeExpected, tempBuffer |-> tempBuffer]

\* DebugManager::execute, part_001:117-129, on the state as it is
executed ==
    IF isExecuting
    THEN ExecState
    ELSE IF debugger = "null"
    THEN [ExecState EXCEPT !.crashed = TRUE]
    ELSE [ExecState EXCEPT
            !.procState = "Starting",
            \* lines 122-126: the list is taken from the process,
            \* prepended to, and stored in the process again
            !.launch = [launch EXCEPT
                          !.stored = prependEach(@, preArguments),
                          !.started = prependEach(launch.stored, preArguments)],
            !.startCalls = @ + 1,
            !.nEvents = @ + 1,
            !.written = NoneWritten,
            !.outRest = <<>>]

\* a call of DebugManager::execute
execute ==
    /\ ~crashed
    /\ pc = "idle"
    /\ nEvents < MaxEvents
    /\ procState' = executed.procState
    /\ crashed' = executed.crashed
    /\ launch' = executed.launch
    /\ startCalls' = executed.startCalls
    /\ nEvents' = executed.nEvents
    /\ written' = executed.written
    /\ outRest' = executed.outRest
    /\ tokenCounter' = executed.tokenCounter
    /\ resposeExpected' = executed.resposeExpected
    /\ tempBuffer' = executed.tempBuffer
    /\ UNCHANGED <<sync, threads, wire, plugins, exitCode, debugger, streamLog,
                   breakpoints, terminated, invoked, lastRecord, lastCmd,
                   nIssued, session, nRegs>>

\* a started handler that forgets to clear the correlation table
startedKeepsTable ==
    [tokenCounter |-> 0, tempBuffer |-> <<>>, resposeExpected |-> resposeExpected]

\* what the handler of QProcess::started assigns, part_001:66-70
started == [tokenCounter |-> 0, tempBuffer |-> <<>>, resposeExpected |-> EmptyTable]

\* the process-started event
OnStarted ==
    /\ ~crashed
    /\ UNCHANGED <<sync, threads, launch, plugins>>
    /\ wire' = NoWire
    /\ procState = "Starting"
    /\ procState' = "Running"
    /\ tokenCounter' = started.tokenCounter
    /\ tempBuffer' = started.tempBuffer
    /\ resposeExpected' = started.resposeExpected
    /\ session' = session + 1
    /\ nIssued' = 0
    /\ UNCHANGED <<exitCode, debugger, crashed, written, outRest, streamLog,
                   breakpoints, terminated, invoked, lastRecord, lastCmd,
                   startCalls, nRegs, nEvents>>

\* QProcess::start fails: back to NotRunning, neither started nor finished
FailedToStart ==
    /\ ~crashed
    /\ UNCHANGED <<sync, threads, wire, launch, plugins>>
    /\ procState = "Starting"
    /\ procState' = "NotRunning"
    /\ written' = NoneWritten
    /\ UNCHANGED <<exitCode, debugger, crashed, tokenCounter, resposeExpected,
                   tempBuffer, outRest, streamLog, breakpoints, terminated,
                   invoked, lastRecord, lastCmd, nIssued, session, startCalls,
                   nRegs, nEvents>>

\* the emissions of gdbProcessTerminated after one more finished(code)
gdbProcessTerminated(code) == Append(terminated, code)

\* an exit that empties the table and calls the handler of a pending entry
\* with a failure
OnFinishedFlushes(code) ==
    /\ ~crashed
    /\ UNCHANGED <<sync, threads, wire, launch, plugins>>
    /\ procState = "Running"
    /\ nEvents < MaxEvents
    /\ nEvents' = nEvents + 1
    /\ procState' = "NotRunning"
    /\ exitCode' = code
    /\ outRest' = <<>>
    /\ terminated' = gdbProcessTerminated(code)
    /\ resposeExpected' = EmptyTable
    /\ invoked' = IF resposeExpected = EmptyTable THEN invoked
                  ELSE LET t == CHOOSE m \in DOMAIN resposeExpected : TRUE
                       IN  Invocation(ReaderState, resposeExpected[t], t,
                                      <<"error">>).invoked
    /\ UNCHANGED <<debugger, crashed, tokenCounter, tempBuffer, written,
                   streamLog, breakpoints, lastRecord, lastCmd, nIssued,
                   session, startCalls, nRegs>>

\* an exit nobody is told of: finished is connected to nothing
OnFinishedSilent(code) ==
    /\ ~crashed
    /\ UNCHANGED <<sync, threads, wire, launch, plugins>>
    /\ procState = "Running"
    /\ nEvents < MaxEvents
    /\ nEvents' = nEvents + 1
    /\ procState' = "NotRunning"
    /\ exitCode' = code
    /\ outRest' = <<>>
    /\ UNCHANGED <<debugger, crashed, tokenCounter, resposeExpected, tempBuffer,
                   written, streamLog, breakpoints, terminated, invoked,
                   lastRecord, lastCmd, nIssued, session, startCalls, nRegs>>

\* the process exits or crashes: QProcess goes to NotRunning and emits
\* finished(int), connected to gdbProcessTerminated, part_001:72-73
OnFinished(code) ==
    /\ ~crashed
    /\ UNCHANGED <<sync, threads, wire, launch, plugins>>
    /\ procState = "Running"
    /\ nEvents < MaxEvents
    /\ nEvents' = nEvents + 1
    /\ procState' = "NotRunning"
    /\ exitCode' = code
    /\ outRest' = <<>>
    /\ terminated' = gdbProcessTerminated(code)
    /\ UNCHANGED <<debugger, crashed, tokenCounter, resposeExpected, tempBuffer,
                   written, streamLog, breakpoints, invoked, lastRecord,
                   lastCmd, nIssued, session, startCalls, nRegs>>

\* DebugManager::command on the table tbl (the caller's, or the one
\* commandAndResponse has just inserted into)
Issue(cmd, tbl, registered) ==
    LET token == tokenCounter
        line == CommandLine(token, cmd)
        call == [n |-> nIssued + 1, token |-> token, text |-> cmd, line |-> line,
                 state |-> procState, session |-> session,
                 registered |-> registered, sinceRec |-> lastRecord.n,
                 pending |-> token \in DOMAIN resposeExpected]
    IN
    /\ ~crashed
    /\ nEvents < MaxEvents
    /\ nEvents' = nEvents + 1
    /\ lastCmd' = call
    \* line 140: d->debugger->handleOutputStreamText(sOut)
    /\ crashed' = (debugger = "null")
    /\ streamLog' = IF debugger = "null" THEN streamLog ELSE streamLog + 1
    /\ CASE procState = "Running" ->
              \* the line is written to the process
              /\ tokenCounter' = NextToken(token)
              /\ resposeExpected' = tbl
              /\ written' = [n |-> written.n + 1, last |-> line]
              /\ nIssued' = nIssued + 1
              /\ UNCHANGED <<procState, tempBuffer, session, wire>>
         [] procState = "NotRunning" ->
              \* QProcess::write fails, waitForBytesWritten returns false
              /\ tokenCounter' = NextToken(token)
              /\ resposeExpected' = tbl
              /\ nIssued' = nIssued + 1
              /\ UNCHANGED <<procState, tempBuffer, session, written, wire>>
         [] procState = "Starting" ->
              \* QProcess buffers the line; waitForBytesWritten waits for the
              \* start first, so the started handler runs inside this call
              \E ok \in BOOLEAN :
                 IF ok
                 THEN /\ procState' = "Running"
                      /\ tokenCounter' = started.tokenCounter
                      /\ tempBuffer' = started.tempBuffer
                      /\ resposeExpected' = started.resposeExpected
                      /\ session' = session + 1
                      /\ nIssued' = 0
                      /\ wire' = NoWire
                      /\ written' = [n |-> written.n + 1, last |-> line]
                 ELSE /\ procState' = "NotRunning"
                      /\ tokenCounter' = NextToken(token)
                      /\ resposeExpected' = tbl
                      /\ nIssued' = nIssued + 1
                      /\ written' = NoneWritten
                      /\ UNCHANGED <<tempBuffer, session, wire>>
    /\ UNCHANGED <<exitCode, debugger, outRest, breakpoints, terminated,
                   invoked, lastRecord, startCalls, threads, launch, plugins>>

\* a command() that registers an entry under its token
commandRegisters(cmd) ==
    /\ pc = "idle"
    /\ Issue(cmd,
             Insert(resposeExpected, tokenCounter,
                    [action |-> "Temporal", handler |-> "parseBreakPoint",
                     reg |-> nRegs + 1, session |-> session]),
             FALSE)
    /\ nRegs' = nRegs + 1
    /\ UNCHANGED sync

\* DebugManager::command
command(cmd) ==
    /\ pc = "idle"
    /\ Issue(cmd, resposeExpected, FALSE)
    /\ UNCHANGED <<nRegs, sync>>

\* DebugManager::commandAndResponse: insert under the current counter, then command
commandAndResponse(cmd, handler, action) ==
    /\ pc = "idle"
    /\ UNCHANGED sync
    /\ Issue(cmd,
             Insert(resposeExpected, tokenCounter,
                    [action |-> action, handler |-> handler,
                     reg |-> nRegs + 1, session |-> session]),
             TRUE)
    /\ nRegs' = nRegs + 1

\* what command() reads or assigns
CommandState ==
    [procState |-> procState, crashed |-> crashed, tokenCounter |-> tokenCounter,
     resposeExpected |-> resposeExpected, written |-> written,
     nIssued |-> nIssued, streamLog |-> streamLog, lastCmd |-> lastCmd,
     nEvents |-> nEvents, tempBuffer |-> tempBuffer, session |-> session,
     wire |-> wire, nRegs |-> nRegs]

\* DebugManager::breakRemove on the state st: commandAndResponse inserts the
\* closure under the counter (part_001:147), then command(), part_001:
\* 131-141, as in Issue; ok tells whether a process that is starting starts
breakRemoveOn(st, bpid, ok) ==
    LET cmd == <<"-", "b", "d", DigitChars[bpid + 1]>>
        token == st.tokenCounter
        line == CommandLine(token, cmd)
        tbl == Insert(st.resposeExpected, token,
                      [action |-> "Temporal", handler |-> RemoveHandlers[bpid],
                       reg |-> st.nRegs + 1, session |-> st.session])
        call == [n |-> st.nIssued + 1, token |-> token, text |-> cmd,
                 line |-> line, state |-> st.procState, session |-> st.session,
                 registered |-> TRUE, sinceRec |-> lastRecord.n,
                 pending |-> token \in DOMAIN st.resposeExpected]
        out == [st EXCEPT !.nEvents = @ + 1, !.lastCmd = call,
                          !.streamLog = @ + 1, !.nRegs = @ + 1]
    IN  IF st.procState = "Running"
        THEN [out EXCEPT !.tokenCounter = NextToken(token),
                         !.resposeExpected = tbl,
                         !.written = [n |-> @.n + 1, last |-> line],
                         !.nIssued = @ + 1]
        ELSE IF st.procState = "NotRunning"
        THEN [out EXCEPT !.tokenCounter = NextToken(token),
                         !.resposeExpected = tbl,
                         !.nIssued = @ + 1]
        ELSE IF ok
        THEN [out EXCEPT !.procState = "Running",
                         !.tokenCounter = started.tokenCounter,
                         !.tempBuffer = started.tempBuffer,
                         !.resposeExpected = started.resposeExpected,
                         !.session = @ + 1,
                         !.nIssued = 0,
                         !.wire = NoWire,
                         !.written = [n |-> @.n + 1, last |-> line]]
        ELSE [out EXCEPT !.procState = "NotRunning",
                         !.tokenCounter = NextToken(token),
                         !.resposeExpected = tbl,
                         !.nIssued = @ + 1,
                         !.written = NoneWritten]

\* a loop that stops after the first breakpoint
RECURSIVE removeFirstOnly(_, _, _)
removeFirstOnly(st, breakPointIds, ok) ==
    IF breakPointIds = <<>> THEN st
    ELSE breakRemoveOn(st, Head(breakPointIds), ok)

\* part_001:193-195  foreach (auto bpid, breakPointIds) breakRemove(bpid)
RECURSIVE removeEach(_, _, _)
removeEach(st, breakPointIds, ok) ==
    IF breakPointIds = <<>> THEN st
    ELSE removeEach(breakRemoveOn(st, Head(breakPointIds), ok),
                    Tail(breakPointIds), ok)

\* DebugManager::removeBreakpointInFile
removeBreakpointInFile(filePath) ==
    /\ ~crashed
    /\ pc = "idle"
    /\ IF debugger = "null"
       THEN \* part_001:192: d->debugger->breakpointsForFile on no adapter
            /\ crashed' = TRUE
            /\ UNCHANGED <<procState, tokenCounter, resposeExpected, written,
                           nIssued, streamLog, lastCmd, nEvents, tempBuffer,
                           session, wire, nRegs>>
       ELSE LET breakPointIds == breakpointsForFile(breakpoints, filePath)
            IN  /\ nEvents + Len(breakPointIds) <= MaxEvents
                /\ \E ok \in BOOLEAN :
                      LET st == removeEach(CommandState, breakPointIds, ok)
                      IN  /\ procState' = st.procState
                          /\ crashed' = st.crashed
                          /\ tokenCounter' = st.tokenCounter
                          /\ resposeExpected' = st.resposeExpected
                          /\ written' = st.written
                          /\ nIssued' = st.nIssued
                          /\ streamLog' = st.streamLog
                          /\ lastCmd' = st.lastCmd
                          /\ nEvents' = st.nEvents
                          /\ tempBuffer' = st.tempBuffer
                          /\ session' = st.session
                          /\ wire' = st.wire
                          /\ nRegs' = st.nRegs
    /\ UNCHANGED <<sync, exitCode, debugger, outRest, breakpoints, terminated,
                   invoked, lastRecord, startCalls, threads, launch, plugins>>

\* the text of the adapter's stack-list-frames command
StackListText == <<"-", "s", "f">>

\* DebugManager::stackListFrames up to the call of waitLocker(): the
\* command is out, d->locker.wait() not entered yet (stackListVariables and
\* threadInfo are the same two lines with another text)
stackListFrames ==
    /\ pc = "idle"
    /\ Issue(StackListText, resposeExpected, FALSE)
    /\ pc' = IF debugger = "null" THEN pc ELSE "called"
    /\ blocking' = [n |-> blocking.n + 1, token |-> tokenCounter,
                    sinceRec |-> lastRecord.n]
    /\ UNCHANGED <<nRegs, fired, stackFrames, lastReturn>>

\* what no action of the Sync Bridge changes
engine == <<procState, exitCode, debugger, crashed, tokenCounter, resposeExpected,
            tempBuffer, written, outRest, streamLog, breakpoints, terminated,
            invoked, lastRecord, lastCmd, nIssued, session, startCalls, nRegs,
            nEvents, threads, wire, launch, plugins>>

\* a wait() that has no time bound
waitNeverTimesOut ==
    /\ pc = "waiting"
    /\ UNCHANGED vars

\* ConditionLockEx::wait, its time bound passing with the flag unset: the
\* call ends with ResponseTimeoutError
waitTimesOut ==
    /\ pc = "waiting"
    /\ ~fired
    /\ pc' = "idle"
    /\ lastReturn' = [n |-> lastReturn.n + 1, kind |-> "ResponseTimeoutError",
                      blocked |-> TRUE]
    /\ UNCHANGED <<engine, fired, stackFrames, blocking>>

\* ConditionLockEx::wait, woken: it takes the flag and returns
waitWakes ==
    /\ pc = "waiting"
    /\ fired
    /\ pc' = "idle"
    /\ fired' = FALSE
    /\ lastReturn' = [n |-> lastReturn.n + 1, kind |-> "fired", blocked |-> TRUE]
    /\ UNCHANGED <<engine, stackFrames, blocking>>

\* DebugManager::waitLocker, entered: with the flag set wait() takes it and
\* returns at once, else the caller blocks
waitLocker ==
    /\ pc = "called"
    /\ IF fired
       THEN /\ pc' = "idle"
            /\ fired' = FALSE
            /\ lastReturn' = [n |-> lastReturn.n + 1, kind |-> "fired",
                              blocked |-> FALSE]
       ELSE /\ pc' = "waiting"
            /\ UNCHANGED <<fired, lastReturn>>
    /\ UNCHANGED <<engine, stackFrames, blocking>>

\* readyReadStandardOutput with readAllStandardOutput() = chunk, after which
\* the process still has rest to emit of the line it is at
Read(chunk, rest) ==
    LET s == ReadChars(ReaderState, chunkToString(chunk))
    IN
    /\ ~crashed
    /\ procState = "Running"
    \* a reader that waits on the locker reads nothing
    /\ threads.reader # "waiting"
    /\ threads' = [threads EXCEPT !.reader = IF s.waits THEN "waiting" ELSE @]
    /\ outRest' = rest
    /\ tempBuffer' = s.tempBuffer
    /\ resposeExpected' = s.resposeExpected
    /\ invoked' = s.invoked
    /\ breakpoints' = s.breakpoints
    /\ lastRecord' = s.lastRecord
    /\ streamLog' = s.streamLog
    /\ stackFrames' = s.stackFrames
    /\ fired' = s.fired
    /\ UNCHANGED <<procState, exitCode, debugger, crashed, tokenCounter,
                   written, terminated, lastCmd, nIssued, session, startCalls,
                   nRegs, pc, blocking, lastReturn, launch, plugins>>
    /\ wire' = [received |-> SinceTerminator(wire.received) \o chunk,
                forwarded |-> s.forwarded]

\* the process emits a line: it arrives whole, or its first k characters do
OnReadyRead(line, k) ==
    /\ outRest = <<>>
    /\ nEvents < MaxEvents
    /\ nEvents' = nEvents + 1
    /\ k \in 1..Len(line)
    /\ Read(SubSeq(line, 1, k), SubSeq(line, k + 1, Len(line)))

\* the rest of a line that arrived in part
OnReadyReadRest ==
    /\ outRest # <<>>
    /\ Read(outRest, <<>>)
    /\ UNCHANGED nEvents

\* ---------------------------------------------- the calls, step by step
\* what the steps of the threads leave alone
atRest == <<procState, exitCode, debugger, tempBuffer, written, outRest,
            streamLog, terminated, lastRecord, lastCmd, nIssued, session,
            startCalls, nEvents, sync, wire, launch, plugins>>

\* the command text of each caller
RaceTexts == <<<<"-", "b", "i">>, <<"-", "e", "n">>>>

\* two unsynchronised accesses to one object, one of them a write, are a
\* data race: the writer's result is built on the object as it is now, or
\* on the object as the writer saw it when it began, or the program ends
RaceOutcomes == {"current", "stale", "crash"}

\* a caller thread enters command() or commandAndResponse()
Enter(c, kind) ==
    /\ ~crashed
    /\ threads.pc[c] = "idle"
    /\ threads' = [threads EXCEPT !.kind[c] = kind,
                                  !.pc[c] = IF kind = "commandAndResponse"
                                            THEN "147" ELSE "133"]
    /\ UNCHANGED <<atRest, crashed, tokenCounter, resposeExpected, invoked,
                   breakpoints, nRegs>>

\* part_001:147, begun: d->tokenCounter is read for the key, and
\* QHash::insert looks at the table
insertBegins(c) ==
    /\ ~crashed
    /\ threads.pc[c] = "147"
    /\ threads' = [threads EXCEPT !.key[c] = tokenCounter,
                                  !.seen[c] = resposeExpected,
                                  !.pc[c] = "147w"]
    /\ UNCHANGED <<atRest, crashed, tokenCounter, resposeExpected, invoked,
                   breakpoints, nRegs>>

\* part_001:147, done: the entry is in the table. If the table was changed
\* by another thread since this insert began, the insert is a data race
insertEnds(c) ==
    LET entry == [action |-> "Temporal", handler |-> "parseBreakPoint",
                  reg |-> nRegs + 1, session |-> session]
        raced == resposeExpected # threads.seen[c]
    IN
    /\ ~crashed
    /\ threads.pc[c] = "147w"
    /\ \E outcome \in (IF raced THEN RaceOutcomes ELSE {"current"}) :
          /\ crashed' = (outcome = "crash")
          /\ resposeExpected' =
                IF outcome = "stale"
                THEN Insert(threads.seen[c], threads.key[c], entry)
                ELSE IF outcome = "current"
                THEN Insert(resposeExpected, threads.key[c], entry)
                ELSE resposeExpected
    /\ nRegs' = nRegs + 1
    /\ threads' = [threads EXCEPT !.reg[c] = nRegs + 1, !.pc[c] = "133"]
    /\ UNCHANGED <<atRest, tokenCounter, invoked, breakpoints>>

\* part_001:133-134: the token and the line are made from d->tokenCounter
tokStrRead(c) ==
    /\ ~crashed
    /\ threads.pc[c] = "133"
    /\ threads' = [threads EXCEPT !.tok[c] = tokenCounter, !.pc[c] = "135"]
    /\ UNCHANGED <<atRest, crashed, tokenCounter, resposeExpected, invoked,
                   breakpoints, nRegs>>

\* part_001:135, the right-hand side: (d->tokenCounter + 1) % 999999
counterRead(c) ==
    /\ ~crashed
    /\ threads.pc[c] = "135"
    /\ threads' = [threads EXCEPT !.nxt[c] = NextToken(tokenCounter),
                                  !.pc[c] = "135w"]
    /\ UNCHANGED <<atRest, crashed, tokenCounter, resposeExpected, invoked,
                   breakpoints, nRegs>>

\* part_001:135, the assignment
counterWrite(c) ==
    /\ ~crashed
    /\ threads.pc[c] = "135w"
    /\ tokenCounter' = threads.nxt[c]
    /\ threads' = [threads EXCEPT !.pc[c] = "136"]
    /\ UNCHANGED <<atRest, crashed, resposeExpected, invoked, breakpoints,
                   nRegs>>

\* part_001:136: d->process->write(line) copies the line into the write
\* buffer of the QProcess, here its token
writeBegins(c) ==
    /\ ~crashed
    /\ threads.pc[c] = "136"
    /\ threads' = [threads EXCEPT !.stdin = @ \o tokStr(threads.tok[c]),
                                  !.pc[c] = "136w"]
    /\ UNCHANGED <<atRest, crashed, tokenCounter, resposeExpected, invoked,
                   breakpoints, nRegs>>

\* part_001:136, the rest of the copy: the command text and the newline
writeEnds(c) ==
    /\ ~crashed
    /\ threads.pc[c] = "136w"
    /\ threads' = [threads EXCEPT !.stdin = @ \o RaceTexts[c] \o <<"\n">>,
                                  !.pc[c] = "done"]
    /\ UNCHANGED <<atRest, crashed, tokenCounter, resposeExpected, invoked,
                   breakpoints, nRegs>>

\* the token the debugger answers in this scenario, and its payload
RaceAnswer == [token |-> 0, payload |-> <<"done", PayloadBkpts1.word>>]

\* part_001:182-184 in the reader thread: the entry is found and its
\* handler is called
dispatchBegins ==
    /\ ~crashed
    /\ threads.reader = "idle"
    /\ RaceAnswer.token \in DOMAIN resposeExpected
    /\ LET called == Invocation(ReaderState, resposeExpected[RaceAnswer.token],
                                RaceAnswer.token, RaceAnswer.payload)
       IN  /\ invoked' = called.invoked
           /\ breakpoints' = called.breakpoints
    /\ threads' = [threads EXCEPT !.reader = "186",
                                  !.readerSeen = resposeExpected]
    /\ UNCHANGED <<atRest, crashed, tokenCounter, resposeExpected, nRegs>>

\* part_001:185-186 in the reader thread: the Temporal entry is removed.
\* If a caller has changed the table since the lookup, the remove is a
\* data race
dispatchEnds ==
    LET raced == resposeExpected # threads.readerSeen
    IN
    /\ ~crashed
    /\ threads.reader = "186"
    /\ \E outcome \in (IF raced THEN RaceOutcomes ELSE {"current"}) :
          /\ crashed' = (outcome = "crash")
          /\ resposeExpected' =
                IF outcome = "stale"
                THEN Remove(threads.readerSeen, RaceAnswer.token)
                ELSE IF outcome = "current"
                THEN Remove(resposeExpected, RaceAnswer.token)
                ELSE resposeExpected
    /\ threads' = [threads EXCEPT !.reader = "done"]
    /\ UNCHANGED <<atRest, tokenCounter, invoked, breakpoints, nRegs>>

\* the caller threads and the reader thread, interleaved step by step
NextRace ==
    \/ \E c \in Callers : \E kind \in CallKinds : Enter(c, kind)
    \/ \E c \in Callers : insertBegins(c)
    \/ \E c \in Callers : insertEnds(c)
    \/ \E c \in Callers : tokStrRead(c)
    \/ \E c \in Callers : counterRead(c)
    \/ \E c \in Callers : counterWrite(c)
    \/ \E c \in Callers : writeBegins(c)
    \/ \E c \in Callers : writeEnds(c)
    \/ dispatchBegins
    \/ dispatchEnds

\* the process writes lines, and every line arrives whole or cut in two at
\* any of its bytes
NextRead ==
    \/ \E line \in WireLines : \E k \in 1..Len(line) : OnReadyRead(line, k)
    \/ OnReadyReadRest

\* the debugger prints noise, whole or cut in two, between its results
NextNoise ==
    \/ \E line \in NoiseLines : \E k \in 1..Len(line) : OnReadyRead(line, k)
    \/ \E line \in ResultLines : OnReadyRead(line, Len(line))
    \/ OnReadyReadRest

\* the client removes the breakpoints of a file, and the debugger answers
\* the tokens that are pending, in any order, with done or with error,
\* between its other records
NextRemove ==
    \/ \E filePath \in Files : removeBreakpointInFile(filePath)
    \/ \E t \in DOMAIN resposeExpected : \E class \in {"done", "error"} :
          LET line == tokStr(t) \o <<"^", class, "\n">>
          IN  OnReadyRead(line, Len(line))
    \/ \E line \in OtherLines : OnReadyRead(line, Len(line))

Next ==
    \/ \E program \in Programs : \E arguments \in ArgLists :
          initDebugger(program, arguments)
    \/ execute
    \/ OnStarted
    \/ FailedToStart
    \/ \E code \in ExitCodes : OnFinished(code)
    \/ \E cmd \in CmdTexts : command(cmd)
    \/ \E c \in Correlated : commandAndResponse(c.text, c.handler, c.action)
    \/ \E line \in ResultLines \cup OtherLines : OnReadyRead(line, Len(line))
    \/ \E line \in SplitLines : \E k \in 1..MaxSplit : OnReadyRead(line, k)
    \/ OnReadyReadRest
    \/ stackListFrames
    \/ waitLocker
    \/ waitWakes
    \/ waitTimesOut

Spec == Init /\ [][Next]_vars

SpecWrap == InitWrap /\ [][Next]_vars

SpecBreak == InitBreak /\ [][Next]_vars

SpecWrapped == InitWrapped /\ [][Next]_vars

SpecRace == InitRace /\ [][NextRace]_vars

SpecRead == InitRead /\ [][NextRead]_vars

SpecNoise == InitBreak /\ [][NextNoise]_vars

SpecRemove == InitRemove /\ [][NextRemove]_vars

SpecController == Init /\ [][NextController]_vars

SpecEditors == Init /\ [][NextEditors]_vars

\* the caller's thread runs, and a wait that can end does end
SpecLive ==
    Init /\ [][Next]_vars
    /\ WF_vars(waitLocker) /\ WF_vars(waitWakes) /\ WF_vars(waitTimesOut)

\* ------------------------------------------------------------ properties
\* steps, told by what they change
IsCall == lastCmd' # lastCmd

RecordStep == lastRecord'.n # lastRecord.n

ResultStep == RecordStep /\ IsResultRecord(lastRecord'.text)

ProcessStarts == procState = "Starting" /\ procState' = "Running"

ProcessExits == procState = "Running" /\ procState' = "NotRunning"

\* the token a result-record step is for
StepToken == RecordToken(lastRecord'.text)

\* the entry a result-record step finds, and the payload of its record
StepEntry == resposeExpected[StepToken]

StepPayload == RecordPayload(lastRecord'.text)

DispatchStep == ResultStep /\ StepToken \in DOMAIN resposeExpected

\* what the handler of a result-record step is called with

StepInvocation ==
    [reg |-> resposeExpected[StepToken].reg,
     handler |-> resposeExpected[StepToken].handler,
     action |-> resposeExpected[StepToken].action,
     token |-> StepToken,
     payload |-> RecordPayload(lastRecord'.text),
     registeredIn |-> resposeExpected[StepToken].session,
     calledIn |-> session, atIssue |-> nIssued]


\* C1 (as stated): of two consecutive commands of one running session the
\* later token is the earlier one plus 1 modulo 1,000,000, so that 999999
\* follows 999998
C1_TokenSuccessorMod1000000 ==
    [][(IsCall /\ lastCmd.n > 0
        /\ lastCmd.state = "Running" /\ lastCmd'.state = "Running"
        /\ lastCmd'.session = lastCmd.session)
       => lastCmd'.token = (lastCmd.token + 1) % 1000000]_vars

\* C2: a line handed to the process is the 6 digits of the counter as it
\* was before the call, then the command text, then one newline
C2_CommandLineFormat ==
    [][(written'.n = written.n + 1)
       => /\ IsCall
          /\ lastCmd'.token = tokenCounter
          /\ Len(written'.last) = 6 + Len(lastCmd'.text) + 1
          /\ \A i \in 1..6 : IsDigit(written'.last[i])
          /\ DecimalValue(SubSeq(written'.last, 1, 6)) = tokenCounter
          /\ SubSeq(written'.last, 7, Len(written'.last) - 1) = lastCmd'.text
          /\ written'.last[Len(written'.last)] = "\n"]_vars

\* C2 witness: the command after the wrap went out as 000000 and its text,
\* the one before it having gone out with a token of six significant digits
C2_Witness ==
    /\ written.n = TokenModulus + 1
    /\ written.last = <<"0", "0", "0", "0", "0", "0", "7", "x", "\n">>

\* C3 (as stated): the n-th command of a freshly started session, n up to
\* 1,000,000, carries token n - 1
C3_NthCommandCarriesNMinus1 ==
    (lastCmd.state = "Running" /\ lastCmd.n >= 1 /\ lastCmd.n <= 1000000)
    => lastCmd.token = lastCmd.n - 1

\* C4: a result record for a token registered Temporal calls that entry's
\* handler once with the record's payload and removes the entry, the other
\* entries staying; no Temporal registration is ever called twice
C4_OneShotDispatch ==
    /\ [][(ResultStep /\ StepToken \in DOMAIN resposeExpected
           /\ resposeExpected[StepToken].action = "Temporal")
          => /\ invoked' = Append(invoked, StepInvocation)
             /\ resposeExpected' = Remove(resposeExpected, StepToken)
             /\ StepToken \notin DOMAIN resposeExpected']_vars
    /\ [](\A i, j \in 1..Len(invoked) :
             (i < j /\ invoked[i].reg = invoked[j].reg)
             => invoked[i].action # "Temporal")

\* C4 witness: two result records came for the token of a Temporal entry;
\* the first called its handler, the second called nothing
C4_Witness ==
    /\ lastRecord.n = 2
    /\ IsResultRecord(lastRecord.text)
    /\ Len(invoked) = 1
    /\ invoked[1].action = "Temporal"
    /\ invoked[1].token = RecordToken(lastRecord.text)
    /\ invoked[1].token \notin DOMAIN resposeExpected
    /\ outRest = <<>> /\ tempBuffer = <<>>

C7_StartedResets ==
    /\ [][ProcessStarts
          => /\ tokenCounter' = 0
             /\ resposeExpected' = EmptyTable
             /\ tempBuffer' = <<>>]_vars
    /\ [](\A i \in 1..Len(invoked) : invoked[i].registeredIn = invoked[i].calledIn)

\* C7 witness: the second session has started; the first left an entry
\* that was never called, a counter above 0 and the first piece of a line
\* (of four events two were starts and one a call, so one was a line, and no
\* record was ever completed)
C7_Witness ==
    /\ session = 2
    /\ procState = "Running"
    /\ nIssued = 0
    /\ tokenCounter = 0
    /\ resposeExpected = EmptyTable
    /\ tempBuffer = <<>>
    /\ nRegs = 1
    /\ invoked = <<>>
    /\ lastCmd.session = 1 /\ lastCmd.registered
    /\ startCalls = 2 /\ nEvents = 4
    /\ lastRecord.n = 0

C9_OneTerminationPerExit ==
    /\ [][ProcessExits => terminated' = Append(terminated, exitCode')]_vars
    /\ [][terminated' # terminated => ProcessExits]_vars
    /\ [][(procState = "NotRunning" /\ procState' # "NotRunning")
          => (procState' = "Starting" /\ startCalls' = startCalls + 1)]_vars

\* C9 witness: two processes have exited, with different exit codes, and
\* two events carry them; the session is NotRunning
C9_Witness ==
    /\ procState = "NotRunning"
    /\ startCalls = 2
    /\ Len(terminated) = 2
    /\ terminated[1] = 0 /\ terminated[2] = 1
    /\ exitCode = 1

\* C10 (as stated): a call of command or commandAndResponse while the
\* process is not Running consumes no token, registers no entry and
\* writes no line
C10_RejectedUnlessRunning ==
    [][(IsCall /\ procState # "Running" /\ ~crashed')
       => /\ tokenCounter' = tokenCounter
          /\ resposeExpected' = resposeExpected
          /\ written' = written]_vars

\* C11 (as stated): the process state moves only along NotRunning ->
\* Starting -> Running -> NotRunning; Running is entered only by a
\* process-started event after an execute(); execute() starts the process
\* only once an adapter is selected, and without one it has no effect: only
\* a call of command can end the program
C11_SessionStateMachine ==
    /\ [][procState' # procState
          => \/ procState = "NotRunning" /\ procState' = "Starting"
             \/ procState = "Starting" /\ procState' = "Running"
             \/ procState = "Running" /\ procState' = "NotRunning"]_vars
    /\ [][(procState # "Running" /\ procState' = "Running")
          => (procState = "Starting" /\ session' = session + 1
              /\ startCalls >= session')]_vars
    /\ [][(procState = "NotRunning" /\ procState' = "Starting")
          => (debugger # "null" /\ startCalls' = startCalls + 1)]_vars
    /\ [][(~IsCall) => (crashed' = crashed)]_vars

\* C12: a success-class result record for a token registered Temporal by
\* breakInsert puts the breakpoint of the payload in the table under the id
\* the payload gives, with the payload's file and line; the table gains no
\* other id, every other breakpoint stays as it was, and the entry leaves
C12_InsertAddsPayloadBreakpoint ==
    [][(DispatchStep /\ StepEntry.handler = "parseBreakPoint"
        /\ StepEntry.action = "Temporal"
        /\ StepPayload[1] \in SuccessClasses)
       => \A b \in BkptsIn(StepPayload) :
            /\ DOMAIN breakpoints' = (DOMAIN breakpoints) \cup {b.id}
            /\ breakpoints'[b.id].file = b.file
            /\ breakpoints'[b.id].line = b.line
            /\ \A id \in (DOMAIN breakpoints) \ {b.id} :
                  breakpoints'[id] = breakpoints[id]
            /\ StepToken \notin DOMAIN resposeExpected']_vars

\* C12 witness: the pending breakInsert was answered with breakpoint 2 of
\* util.c:20; the table holds it beside breakpoint 1, and the entry is gone
C12_Witness ==
    /\ Len(invoked) = 2
    /\ invoked[2].handler = "parseBreakPoint" /\ invoked[2].action = "Temporal"
    /\ invoked[2].token = 1
    /\ DOMAIN breakpoints = {1, 2}
    /\ breakpoints[1].file = "main.c" /\ breakpoints[1].line = 10
    /\ breakpoints[2].file = "util.c" /\ breakpoints[2].line = 20
    /\ 1 \notin DOMAIN resposeExpected

\* C13: the result of breakRemove(id) removes the breakpoint of that id and
\* leaves the others as they were; no call of a command changes the
\* breakpoint table
C13_RemoveTakesItsId ==
    /\ [][\A id \in BkptIds :
            (DispatchStep /\ StepEntry.handler = RemoveHandlers[id])
            => /\ DOMAIN breakpoints' = (DOMAIN breakpoints) \ {id}
               /\ \A o \in DOMAIN breakpoints' : breakpoints'[o] = breakpoints[o]]_vars
    /\ [][IsCall => breakpoints' = breakpoints]_vars

\* C13 witness: with breakpoints 1 and 2 in the table the result of
\* breakRemove(1) was dispatched, and breakpoint 2 alone is left, as it was
C13_Witness ==
    /\ Len(invoked) = 3
    /\ invoked[3].handler = RemoveHandlers[1]
    /\ invoked[2].handler = "parseBreakPoint"
    /\ BkptsIn(invoked[2].payload) # {}
    /\ DOMAIN breakpoints = {2}
    /\ breakpoints[2].file = "util.c" /\ breakpoints[2].line = 20

\* C14: the result of breakRemoveAll empties the breakpoint table
C14_RemoveAllEmpties ==
    [][(DispatchStep /\ StepEntry.handler = "clearBreakPoint")
       => breakpoints' = EmptyTable]_vars

\* C14 witness: breakRemoveAll was the third command; the answer to the
\* pending breakInsert came after it and added breakpoint 2; then the
\* result of breakRemoveAll emptied the table of both
C14_Witness ==
    /\ Len(invoked) = 3
    /\ invoked[2].handler = "parseBreakPoint" /\ invoked[2].atIssue >= 3
    /\ invoked[2].payload[1] = "done"
    /\ \E b \in BkptsIn(invoked[2].payload) : b.id = 2
    /\ invoked[3].handler = "clearBreakPoint" /\ invoked[3].token = 2
    /\ breakpoints = EmptyTable

\* C15 (as stated): an error-class result record for a pending entry
\* leaves the breakpoint table as it was
C15_ErrorLeavesTable ==
    [][(DispatchStep /\ StepPayload[1] = "error")
       => breakpoints' = breakpoints]_vars

\* a blocking call comes back to its caller, woken by a fire()
ReturnsFired == pc # "idle" /\ pc' = "idle" /\ lastReturn'.kind = "fired"

\* C16 (as stated): a blocking call returns, woken, only when the snapshot
\* is the one a result record with the call's own token has put there since
\* the call was made
C16_ReturnsAfterOwnResponse ==
    [][ReturnsFired
       => (stackFrames.token = blocking.token
           /\ stackFrames.rec > blocking.sinceRec)]_vars

C18_FireBeforeWaitKept ==
    /\ [][(pc = "called" /\ stackFrames'.rec # stackFrames.rec) => fired']_vars
    /\ [][(pc = "called" /\ fired /\ pc' # pc)
          => (ReturnsFired /\ ~lastReturn'.blocked)]_vars
    /\ [][(fired /\ ~fired') => ReturnsFired]_vars

\* C18 witness: the answer to the call's own command was dispatched before
\* the caller entered wait(), and the call returned without blocking
C18_Witness ==
    /\ pc = "idle"
    /\ blocking.n = 1
    /\ lastReturn.n = 1 /\ lastReturn.kind = "fired" /\ ~lastReturn.blocked
    /\ stackFrames.token = blocking.token
    /\ stackFrames.rec > blocking.sinceRec
    /\ ~fired

\* C19 (as stated): a registration under a token that has a pending entry
\* does not replace that entry
C19_PendingEntryNotReplaced ==
    [][(IsCall /\ lastCmd'.registered /\ ~ProcessStarts
        /\ tokenCounter \in DOMAIN resposeExpected)
       => (/\ tokenCounter \in DOMAIN resposeExpected'
           /\ resposeExpected'[tokenCounter] = resposeExpected[tokenCounter])]_vars

\* C20 (as stated): the first result record that echoes the token of a
\* commandAndResponse call whose line the process got finds the entry of
\* that call in the table
C20_ResponseFindsItsEntry ==
    [][(ResultStep /\ lastCmd.registered /\ StepToken = lastCmd.token
        /\ written.n > 0 /\ written.last = lastCmd.line
        /\ lastRecord.n = lastCmd.sinceRec)
       => (/\ StepToken \in DOMAIN resposeExpected
           /\ StepEntry.reg = nRegs)]_vars

\* C20 restricted to calls made while the process was Running, which holds
C20_HoldsWhenRunning ==
    [][(ResultStep /\ lastCmd.registered /\ StepToken = lastCmd.token
        /\ written.n > 0 /\ written.last = lastCmd.line
        /\ lastRecord.n = lastCmd.sinceRec /\ lastCmd.state = "Running")
       => (/\ StepToken \in DOMAIN resposeExpected
           /\ StepEntry.reg = nRegs)]_vars

\* a fire-and-forget call: command(), or an operation built on it
PlainCall == IsCall /\ ~lastCmd'.registered

\* the first result record after a fire-and-forget call of the running
\* session that echoes the token of the call
PlainResultStep ==
    /\ ResultStep
    /\ lastCmd.n > 0 /\ ~lastCmd.registered
    /\ lastCmd.state = "Running" /\ lastCmd.session = session
    /\ StepToken = lastCmd.token
    /\ lastRecord.n = lastCmd.sinceRec

\* C21, the frame of command(): in a running session it takes the counter
\* as its token and advances it, writes the one line of that token and its
\* text, adds one log entry, and leaves the table, the registrations and
\* the handler calls as they were
C21_Frame ==
    [][(PlainCall /\ procState = "Running" /\ debugger # "null")
       => /\ lastCmd'.token = tokenCounter
          /\ tokenCounter' = NextToken(tokenCounter)
          /\ written' = [n |-> written.n + 1,
                         last |-> CommandLine(tokenCounter, lastCmd'.text)]
          /\ streamLog' = streamLog + 1
          /\ resposeExpected' = resposeExpected
          /\ nRegs' = nRegs
          /\ invoked' = invoked]_vars

\* C21 (as stated): command() has that frame, and the result record for a
\* fire-and-forget command calls no handler
C21_ResultCallsNoHandler ==
    /\ C21_Frame
    /\ [][PlainResultStep => invoked' = invoked]_vars

\* C21 (amended): command() has that frame; the result record for a
\* fire-and-forget command calls no handler when no entry was pending under
\* the token at the call, and otherwise calls the handler of that older
\* entry
C21_CommandFrame ==
    /\ C21_Frame
    /\ [][(PlainResultStep /\ ~lastCmd.pending) => invoked' = invoked]_vars
    /\ [][(PlainResultStep /\ lastCmd.pending)
          => (/\ StepToken \in DOMAIN resposeExpected
              /\ invoked' = Append(invoked, StepInvocation))]_vars

\* C21 witness: after the wrap command() went out under token 0, where the
\* Persistent entry of the first command is still pending; command() left
\* the table alone, and its result record was given to that older handler
C21_Witness ==
    /\ lastCmd.n = TokenModulus + 1
    /\ ~lastCmd.registered /\ lastCmd.pending
    /\ lastCmd.token = 0 /\ tokenCounter = 1
    /\ written = [n |-> TokenModulus + 1, last |-> lastCmd.line]
    /\ nRegs = 1
    /\ DOMAIN resposeExpected = {0} /\ resposeExpected[0].reg = 1
    /\ lastRecord.n = 1 /\ IsResultRecord(lastRecord.text)
    /\ RecordToken(lastRecord.text) = 0
    /\ Len(invoked) = 1 /\ invoked[1].reg = 1

\* both caller threads are through their call
AllWritten == \A c \in Callers : threads.pc[c] = "done"

\* the line of caller c: the token it took and its text
RaceLine(c) == CommandLine(threads.tok[c], RaceTexts[c])

\* C22 (as stated): when two caller threads have issued one command each,
\* at the same time, the process has got the two whole lines one after the
\* other, the two tokens differ, and the counter has advanced by 2
C22_WritesSerialized ==
    (AllWritten /\ ~crashed)
    => /\ threads.stdin \in {RaceLine(1) \o RaceLine(2), RaceLine(2) \o RaceLine(1)}
       /\ threads.tok[1] # threads.tok[2]
       /\ tokenCounter = NextToken(NextToken(threads.start))

\* caller c alone has registered an entry, and the reader has dispatched
\* the one result record: all accesses to the table are over
OneCallerAndReader(c) ==
    /\ \A o \in Callers \ {c} : threads.pc[o] = "idle"
    /\ threads.reg[c] > 0
    /\ threads.reader = "done"

\* C23 (as stated): a caller that registers an entry while the reader
\* dispatches a result record leaves the table as one of the two orders of
\* the two operations leaves it: the dispatched entry is gone, the
\* registered one is there, and the program goes on
C23_TableAsIfSequential ==
    \A c \in Callers :
       OneCallerAndReader(c)
       => /\ ~crashed
          /\ DOMAIN resposeExpected = {threads.key[c]}
          /\ resposeExpected[threads.key[c]].reg = threads.reg[c]

\* the command texts of the higher-level operations of the model:
\* breakInsert, breakRemoveAll, breakRemove(id) and stackListFrames
OperationTexts == {c.text : c \in Correlated} \cup {StackListText}

\* C24 (as stated): a higher-level operation called in a running session
\* leaves an entry of its own under the token of its line, and an entry
\* leaves the table only when a result record for its token is dispatched
\* or the process starts anew
C24_OperationsRegister ==
    /\ [][(IsCall /\ procState = "Running" /\ lastCmd'.text \in OperationTexts)
          => (/\ lastCmd'.token \in DOMAIN resposeExpected'
              /\ nRegs' = nRegs + 1
              /\ resposeExpected'[lastCmd'.token].reg = nRegs')]_vars
    /\ [][\A t \in DOMAIN resposeExpected :
             t \notin DOMAIN resposeExpected'
             => \/ ResultStep /\ StepToken = t
                \/ session' # session]_vars

\* C25: an error-class result record for a token with an entry calls the
\* handler of that entry, once, with the error payload; a Temporal entry
\* then leaves and a Persistent one stays; the process state, the session
\* and the termination events stay as they were and the program goes on
C25_ErrorReachesHandler ==
    [][(DispatchStep /\ StepPayload[1] = "error")
       => /\ invoked' = Append(invoked, StepInvocation)
          /\ invoked'[Len(invoked')].payload[1] = "error"
          /\ resposeExpected' = IF StepEntry.action = "Temporal"
                                THEN Remove(resposeExpected, StepToken)
                                ELSE resposeExpected
          /\ procState' = procState
          /\ session' = session
          /\ terminated' = terminated
          /\ ~crashed']_vars

\* C25 witness: the one pending entry, a Temporal one, got an error result:
\* its handler was called with it, the entry is gone, the session runs
C25_Witness ==
    /\ procState = "Running"
    /\ nRegs = 1
    /\ Len(invoked) = 1
    /\ invoked[1].action = "Temporal"
    /\ invoked[1].payload = <<"error">>
    /\ resposeExpected = EmptyTable
    /\ IsResultRecord(lastRecord.text)
    /\ RecordToken(lastRecord.text) = invoked[1].token
    /\ terminated = <<>> /\ ~crashed

\* C26 (as stated): while the session is NotRunning the breakpoint table
\* and the stack-frame snapshot are empty
C26_CachesEmptyWhenNotRunning ==
    procState = "NotRunning"
    => (breakpoints = EmptyTable /\ stackFrames.frames = "")

\* a call whose line did not get to the process: write() or
\* waitForBytesWritten() failed
FailedWrite == IsCall /\ ~crashed' /\ written'.n # written.n + 1

\* C27 (as stated): after a call whose write failed the session is
\* NotRunning and the correlation table is empty: the pending entries are
\* gone, and so is the entry the call registered
C27_WriteFailureTearsDown ==
    [][FailedWrite
       => (procState' = "NotRunning" /\ resposeExpected' = EmptyTable)]_vars

\* records, one after the other
RECURSIVE Concat(_)
Concat(records) ==
    IF records = <<>> THEN <<>> ELSE Head(records) \o Concat(Tail(records))

\* the records forwarded by the last read are terminated segments of the
\* output, the buffer is what came after the last terminator, and together
\* they are the bytes received since the last terminator before that read;
\* as this holds after every read, all the records followed by the buffer
\* are all the bytes received since the process started
RecordsAndBufferAreTheBytes ==
    /\ \A i \in 1..Len(wire.forwarded) :
          LET r == wire.forwarded[i]
          IN  /\ r # <<>>
              /\ IsTerminator(r[Len(r)])
              /\ \A j \in 1..(Len(r) - 1) : ~IsTerminator(r[j])
    /\ \A i \in 1..Len(tempBuffer) : ~IsTerminator(tempBuffer[i])
    /\ toUtf8(Concat(wire.forwarded) \o tempBuffer) = wire.received

\* C28 (as stated): whatever the chunks the output arrives in, after each
\* chunk every terminated segment has been forwarded once and in order,
\* the buffer holds what came since the last terminator, and the records
\* followed by the buffer are the bytes received
C28_ChunkingKeepsTheBytes ==
    procState = "Running" => RecordsAndBufferAreTheBytes

\* C28 restricted to output of one-byte characters, which holds
C28_HoldsForAscii ==
    (procState = "Running"
     /\ \A i \in 1..Len(wire.received) :
           wire.received[i] \notin {LeadByte, ContinuationByte})
    => RecordsAndBufferAreTheBytes

\* the records this step has passed to the adapter
NewRecords ==
    IF lastRecord'.n > lastRecord.n THEN wire'.forwarded ELSE <<>>

\* the records that are printed noise: the noise lines, and the pieces in
\* which a line that ends in CR LF is forwarded
NoiseRecords == NoiseLines \cup OtherLines \cup {<<"~", "text", "\r">>, <<"\n">>}

\* C29: a step in which only stream records, async records, the prompt or
\* unparseable lines are forwarded invokes no handler, removes no pending
\* entry and does not terminate the session
C29_NoiseInvokesNothing ==
    [][(/\ NewRecords # <<>>
        /\ \A i \in 1..Len(NewRecords) : NewRecords[i] \in NoiseRecords)
       => /\ invoked' = invoked
          /\ resposeExpected' = resposeExpected
          /\ breakpoints' = breakpoints
          /\ procState' = procState
          /\ terminated' = terminated
          /\ crashed' = crashed]_vars

\* an async record with the token of a pending command in front has been
\* read after two other records, and the command is pending
C29_Witness ==
    /\ wire.received = <<"1", "*", "stopped", "\n">>
    /\ wire.forwarded = <<wire.received>>
    /\ lastRecord.text = wire.received
    /\ lastRecord.n >= 3
    /\ 1 \in DOMAIN resposeExpected
    /\ procState = "Running"

\* a step in which execute() calls d->process->start()
Starts == startCalls' = startCalls + 1

\* C30 (as stated): every start of the process by execute() is given the
\* adapter's pre-launch arguments, in the adapter's order, followed by the
\* arguments stored by initDebugger, also when it is a second execute()
\* with no initDebugger since the first
C30_StartGetsPreThenStored ==
    [][Starts => launch'.started = preArguments \o launch.given]_vars

\* C30, without the order: every start is given as many arguments as the
\* adapter's and the stored ones together
C30_NoAccumulation ==
    [][Starts => Len(launch'.started) = Len(preArguments) + Len(launch.given)]_vars

\* C30, the first start only: the arguments are the adapter's and the
\* stored ones, in some order, the stored ones last
C30_FirstStartHasThemAll ==
    [][(Starts /\ launch.stored = launch.given)
       => /\ Len(launch'.started) = Len(preArguments) + Len(launch.given)
          /\ {launch'.started[i] : i \in 1..Len(preArguments)}
                = {preArguments[i] : i \in 1..Len(preArguments)}
          /\ SubSeq(launch'.started, Len(preArguments) + 1,
                    Len(launch'.started)) = launch.given]_vars

\* initDebugger has been called and has set the arguments
Initialized == launch.given # <<>>

\* C31 (as stated): once initDebugger has returned, whatever the program,
\* there is an adapter, so no execute() and no command after it runs
\* against a missing one
C31_InitializeSelectsAdapter ==
    Initialized => (debugger # "null" /\ ~crashed)

\* C31 restricted to a program whose path contains "gdb", which holds:
\* a step that makes the GDB adapter leaves an adapter, and no call after
\* it finds none
C31_GdbSelectsAdapter ==
    debugger = "gdb" => (Initialized /\ ~crashed)

\* a step in which dispatch has called a handler
HandlerStep == Len(invoked') > Len(invoked)

\* C32: a step in which dispatch calls a handler leaves the reader out of
\* the Sync Bridge: the reader does not wait, no blocking call begins or
\* ends, no command is written, and of the adapter's state only the
\* breakpoint table may change
C32_DispatchNeverWaits ==
    [][HandlerStep
       => /\ threads'.reader # "waiting"
          /\ pc' = pc
          /\ blocking' = blocking
          /\ lastReturn' = lastReturn
          /\ tokenCounter' = tokenCounter
          /\ written' = written]_vars

\* the closure of breakRemoveAll has run in dispatch while a caller was
\* blocked in stackListFrames(), and the reader is free
C32_Witness ==
    /\ pc = "waiting"
    /\ invoked # <<>>
    /\ invoked[Len(invoked)].handler = "clearBreakPoint"
    /\ lastRecord.n > blocking.sinceRec
    /\ threads.reader = "idle"

\* caller c has made its command line
LineMade(c) == threads.pc[c] \in {"135", "135w", "136", "136w", "done"}

\* C33 (as stated): whatever the interleaving of the callers, the token a
\* commandAndResponse call has registered its handler under is the token
\* at the start of the command line of that call
C33_HandlerUnderOwnToken ==
    \A c \in Callers :
       (threads.kind[c] = "commandAndResponse" /\ LineMade(c))
       => threads.key[c] = threads.tok[c]

\* C33 for a call that no other caller interleaves with, which holds
C33_OwnTokenWhenAlone ==
    \A c \in Callers :
       (/\ threads.kind[c] = "commandAndResponse"
        /\ LineMade(c)
        /\ \A o \in Callers \ {c} : threads.pc[o] = "idle")
       => threads.key[c] = threads.tok[c]

\* C34: execute() called while the process is Starting or Running changes
\* nothing: no second start, and the stored arguments, the token counter,
\* the correlation table and the line buffer stay as they are
C34_ExecuteWhileExecutingIsNoOp ==
    procState \in {"Starting", "Running"} => executed = ExecState

\* the process is starting for the second time, with arguments stored and
\* commands buffered, and an execute() now would change none of it
C34_Witness ==
    /\ procState = "Starting"
    /\ startCalls = 2
    /\ launch.stored # <<>>
    /\ resposeExpected # EmptyTable
    /\ executed = ExecState

\* the closure of breakRemove(id) has been called
Dispatched(id) ==
    \E k \in 1..Len(invoked) : invoked[k].handler = RemoveHandlers[id]

\* entries in a table
Size(tbl) == Cardinality(DOMAIN tbl)

\* a step of removeBreakpointInFile(filePath) has issued one break-remove
\* command for each breakpoint of the file, under consecutive tokens, each
\* with a one-shot entry of its own
OnePerBreakpoint(filePath) ==
    LET ids == breakpointsForFile(breakpoints, filePath)
    IN  /\ written'.n = written.n + Len(ids)
        /\ tokenCounter' = tokenCounter + Len(ids)
        /\ Size(resposeExpected') = Size(resposeExpected) + Len(ids)
        /\ \A i \in 1..Len(ids) :
              LET t == tokenCounter + i - 1
              IN  /\ t \in DOMAIN resposeExpected'
                  /\ t \notin DOMAIN resposeExpected
                  /\ resposeExpected'[t].handler = RemoveHandlers[ids[i]]
                  /\ resposeExpected'[t].action = "Temporal"
        /\ written'.last =
              CommandLine(tokenCounter + Len(ids) - 1,
                          <<"-", "b", "d", DigitChars[ids[Len(ids)] + 1]>>)

\* C35: removeBreakpointInFile(file) issues one break-remove command for
\* each breakpoint recorded for the file, under consecutive tokens and
\* with one one-shot entry each; once the results of the removals of a
\* file are dispatched, in any order, the table has no breakpoint of that
\* file, and every breakpoint whose removal was not dispatched is as it was
C35_RemoveInFile ==
    /\ [][written'.n > written.n
           => \E filePath \in Files : OnePerBreakpoint(filePath)]_vars
    /\ [](breakpoints = [id \in {i \in DOMAIN ThreeBkpts : ~Dispatched(i)}
                           |-> ThreeBkpts[id]])

\* both breakpoints of main.c were removed, the second one first, and the
\* breakpoint of util.c is left
C35_Witness ==
    /\ Dispatched(1) /\ Dispatched(3)
    /\ invoked[Len(invoked)].handler = RemoveHandlers[1]
    /\ DOMAIN breakpoints = {2}
    /\ resposeExpected = EmptyTable

\* C36 (as stated): every name in the added-widget map maps to a widget
\* that is not null and that was registered under the name
C36_AddedWidgetIsRegistered ==
    \A name \in DOMAIN addedWidget :
       /\ addedWidget[name] # 0
       /\ name \in DOMAIN widgetsGiven
       /\ addedWidget[name] \in widgetsGiven[name]

\* what holds of C36: a null pointer enters the added map only under a
\* name that was added already and was not waiting, the case of
\* insertWidget for a name that is already added
C36_OnlyInsertStoresNull ==
    [][(\A name \in DOMAIN addedWidget : addedWidget[name] # 0)
       => \A name \in DOMAIN addedWidget' :
             addedWidget'[name] = 0
             => /\ name \in DOMAIN addedWidget
                /\ name \notin DOMAIN widgetWaitForAdd]_vars

\* C37 (as stated): no name is in the waiting map and in the added map at
\* once, and registerWidget for a name that is in either map leaves the
\* waiting map as it is
C37_WaitingAndAddedDisjoint ==
    /\ (DOMAIN widgetWaitForAdd) \cap (DOMAIN addedWidget) = {}
    /\ \A name \in (DOMAIN widgetWaitForAdd) \cup (DOMAIN addedWidget) :
          \A widget \in Widgets :
             registerWidgetResult(name, widget) = widgetWaitForAdd

\* what holds of C37: the first registration wins, and a name comes to be
\* in both maps only by being put in the added map while it waits, which
\* is what registerWidgetToMode does
C37_OnlyToModeOverlaps ==
    /\ [](\A name \in (DOMAIN widgetWaitForAdd) \cup (DOMAIN addedWidget) :
            \A widget \in Widgets :
               registerWidgetResult(name, widget) = widgetWaitForAdd)
    /\ [][\A name \in (DOMAIN widgetWaitForAdd') \cap (DOMAIN addedWidget') :
            \/ name \in (DOMAIN widgetWaitForAdd) \cap (DOMAIN addedWidget)
            \/ /\ name \in DOMAIN widgetWaitForAdd
               /\ Len(modeInfo') > Len(modeInfo)]_vars

\* the editors created for the file name that are alive
LiveEditors(fileName) ==
    {e \in 1..Len(editorsMade) :
        editorsMade[e].file = fileName /\ editorsMade[e].alive}

\* C38 (as stated): findEditor(fileName) returns an editor created for
\* the file name that is alive whenever there is one, and null only when
\* there is none
C38_FindsLiveEditor ==
    \A fileName \in FileNames :
       IF LiveEditors(fileName) = {} THEN findEditor(fileName) = 0
       ELSE findEditor(fileName) \in LiveEditors(fileName)

\* what holds of C38: findEditor never returns an editor that is destroyed
\* or one of another file, and it finds the editor of every file name
\* that has had one editor only
C38_FindsTheOnlyEditor ==
    \A fileName \in FileNames :
       /\ findEditor(fileName) # 0 => findEditor(fileName) \in LiveEditors(fileName)
       /\ Cardinality({e \in 1..Len(editorsMade) :
                          editorsMade[e].file = fileName}) = 1
          => (LiveEditors(fileName) # {}
              => findEditor(fileName) \in LiveEditors(fileName))

====
